---- MODULE Spec2Model ----
(***************************************************************************)
(* Model of the Eunoia document-to-text extraction front end:              *)
(*   - OcrZoneSelector   (src/src copy/components/OcrZoneSelector.tsx)     *)
(*   - text-extraction   (src/unnamed/part_001, lines 548-692)             *)
(*   - Assessment        (src/src/lib/mental-health-api.ts, lines 130-810) *)
(*                                                                         *)
(* Numbers.  Pointer positions are percentages of the container; they are  *)
(* modelled in eighths of a percent (PercentUnits), which are exactly      *)
(* representable as doubles, so min/abs/compare on them are exact.  A zone *)
(* handed to onAddZone has been through Number(v.toFixed(2)) and is        *)
(* modelled in hundredths of a percent.  Pixels are integers.              *)
(*                                                                         *)
(* Strings are sequences of one-token strings; " " and "\n" are the white  *)
(* space String.prototype.trim removes.                                    *)
(***************************************************************************)
EXTENDS Integers, Sequences, FiniteSets, TLC

VARIABLES
    text,               \* useState("")            the accumulated buffer
    isAnalyzing,        \* useState(false)
    isPdfExtracting,    \* useState(false)
    isImageExtracting,  \* useState(false)
    pdfProgress,        \* useState<ExtractionProgress | null>(null)
    imageProgress,      \* useState<ExtractionProgress | null>(null)
    selectedImageFile,  \* useState<File | null>(null)
    imagePreviewUrl,    \* useState<string | null>(null)
    ocrImageElement,    \* useState<HTMLImageElement | null>(null)
    ocrZones,           \* useState<OcrZone[]>([])  the zone registry
    isOcrModalOpen,     \* useState(false)
    ocrMode,            \* useState<"full" | "zones">("full")
    originRef,          \* OcrZoneSelector: useRef(null)
    draftRect,          \* OcrZoneSelector: useState(null)
    previews,           \* the Image objects of handleImageUpload still loading
    urlCount,           \* number of URL.createObjectURL calls so far
    zoneIdCount,        \* number of createZoneId calls so far
    pdfJob,             \* the activation of handlePdfUpload / extractTextFromPdf
    imgJob,             \* the activation of handleExtractWholeImage / ...SelectedZones
    toast,              \* the last toast shown outside an extraction job
    call                \* the last direct call of a function of the core

selVars    == <<originRef, draftRect>>
imgVars    == <<selectedImageFile, imagePreviewUrl, ocrImageElement,
                isOcrModalOpen, ocrMode, previews, urlCount>>
zoneVars   == <<ocrZones, zoneIdCount>>
imgJobVars == <<isImageExtracting, imageProgress, imgJob>>
pdfJobVars == <<isPdfExtracting, pdfProgress, pdfJob>>
vars == <<text, isAnalyzing, selVars, imgVars, zoneVars, imgJobVars, pdfJobVars,
          toast, call>>

NULL == [null |-> TRUE]

(***************************************************************************)
(* Bounds of the exploration.                                              *)
(***************************************************************************)
MaxUploads == 1
MaxUrls == 2
MaxZoneIds == 2
MaxPages == 2

(***************************************************************************)
(* Arithmetic helpers: Math.min, Math.max, Math.abs, Math.round.           *)
(***************************************************************************)
Min(a, b) == IF a <= b THEN a ELSE b
Max(a, b) == IF a >= b THEN a ELSE b
Abs(a) == IF a >= 0 THEN a ELSE -a

\* Math.round(num / den) for num >= 0, den > 0: nearest integer, halves up.
RoundDiv(num, den) == (2 * num + den) \div (2 * den)

(***************************************************************************)
(* Strings.                                                                *)
(***************************************************************************)
WhiteSpace == {" ", "\n"}

RECURSIVE TrimStart(_)
TrimStart(s) ==
    IF s = <<>> THEN <<>>
    ELSE IF Head(s) \in WhiteSpace THEN TrimStart(Tail(s)) ELSE s

RECURSIVE TrimEnd(_)
TrimEnd(s) ==
    IF s = <<>> THEN <<>>
    ELSE IF s[Len(s)] \in WhiteSpace THEN TrimEnd(SubSeq(s, 1, Len(s) - 1)) ELSE s

\* String.prototype.trim
Trim(s) == TrimEnd(TrimStart(s))

\* Array.prototype.join: the parts in order with sep between neighbours
\* (computed by halves, which keeps the evaluation shallow on long arrays)
RECURSIVE Join(_, _)
Join(parts, sep) ==
    IF parts = <<>> THEN <<>>
    ELSE IF Len(parts) = 1 THEN parts[1]
    ELSE LET half == Len(parts) \div 2
         IN  Join(SubSeq(parts, 1, half), sep) \o sep
                \o Join(SubSeq(parts, half + 1, Len(parts)), sep)

BlankLine == <<"\n", "\n">>

\* `${n}` for the small counts the model reaches
Digits == <<"1", "2", "3", "4", "5", "6", "7", "8", "9">>
RECURSIVE NumStr(_)
NumStr(n) ==
    IF n = 0 THEN <<"0">>
    ELSE IF n < 10 THEN <<Digits[n]>>
    ELSE NumStr(n \div 10) \o NumStr(n % 10)

(***************************************************************************)
(* OcrZoneSelector: geometry.                                              *)
(***************************************************************************)
PercentUnits == 8
MIN_ZONE_SIZE == 1

\* const clamp = (value) => Math.min(Math.max(value, 0), 100), in eighths
clamp(value) == Min(Max(value, 0), 100 * PercentUnits)

\* getRelativePosition: raw is ((client - bounds.origin) / bounds.size) * 100
\* per axis, in eighths of a percent; it may lie outside the container.
getRelativePosition(raw) == [x |-> clamp(raw[1]), y |-> clamp(raw[2])]

\* Mutant of DragRect: the rectangle is anchored at the press point and its
\* extent is the signed distance to the current point.
DragRect_fromOrigin(origin, current) ==
    [x      |-> origin.x,
     y      |-> origin.y,
     width  |-> current.x - origin.x,
     height |-> current.y - origin.y]

\* The rectangle handlePointerMove computes from the press point and the
\* current point.
DragRect(origin, current) ==
    [x      |-> Min(origin.x, current.x),
     y      |-> Min(origin.y, current.y),
     width  |-> Abs(current.x - origin.x),
     height |-> Abs(current.y - origin.y)]

\* Number(v.toFixed(2)) of v eighths of a percent, in hundredths of a percent.
\* v / 8 * 100 = 25 v / 2; toFixed picks the larger n on a tie.
ToFixed2(v) == (25 * v + 1) \div 2

\* The zone handlePointerUp hands to onAddZone, in hundredths of a percent.
CommitZone(rect) ==
    [x      |-> ToFixed2(rect.x),
     y      |-> ToFixed2(rect.y),
     width  |-> ToFixed2(rect.width),
     height |-> ToFixed2(rect.height)]

\* Mutant of LargeEnough: only the width of the drag is tested.
LargeEnough_widthOnly(rect) == rect.width >= MIN_ZONE_SIZE * PercentUnits

\* draftRect.width >= MIN_ZONE_SIZE && draftRect.height >= MIN_ZONE_SIZE
LargeEnough(rect) ==
    /\ rect.width >= MIN_ZONE_SIZE * PercentUnits
    /\ rect.height >= MIN_ZONE_SIZE * PercentUnits

(***************************************************************************)
(* text-extraction: normalizeZone and the crop of extractTextFromImageZone *)
(* (zones in hundredths of a percent, pixels as integers).                 *)
(***************************************************************************)
\* const clampPercentage = (value) => Math.min(Math.max(value, 0), 100)
clampPercentage(value) == Min(Max(value, 0), 10000)

\* Mutant of normalizeZone: width and height are clamped to [0,100] but not
\* capped at what is left right of x and below y.
normalizeZone_uncapped(zone) ==
    [x |-> clampPercentage(zone.x), y |-> clampPercentage(zone.y),
     width |-> clampPercentage(zone.width),
     height |-> clampPercentage(zone.height)]

\* Mutant of normalizeZone: width and height are raised to the 1 percent a
\* registry zone has at least.
normalizeZone_minimumExtent(zone) ==
    LET x == clampPercentage(zone.x)
        y == clampPercentage(zone.y)
        width == Max(clampPercentage(zone.width), 100)
        height == Max(clampPercentage(zone.height), 100)
    IN  [x |-> x, y |-> y,
         width |-> Min(width, 10000 - x),
         height |-> Min(height, 10000 - y)]

normalizeZone(zone) ==
    LET x == clampPercentage(zone.x)
        y == clampPercentage(zone.y)
        width == clampPercentage(zone.width)
        height == clampPercentage(zone.height)
    IN  [x |-> x, y |-> y,
         width |-> Min(width, 10000 - x),
         height |-> Min(height, 10000 - y)]

\* Math.round((percent / 100) * natural), percent in hundredths
ToPixels(percent, natural) == RoundDiv(percent * natural, 10000)

\* Mutant of CropRect: the selection and the available space are not raised
\* to one pixel.
CropRect_noMinimum(zone, naturalWidth, naturalHeight) ==
    LET normalizedZone == normalizeZone(zone)
        startXPx == ToPixels(normalizedZone.x, naturalWidth)
        startYPx == ToPixels(normalizedZone.y, naturalHeight)
    IN  [startXPx |-> startXPx, startYPx |-> startYPx,
         outputWidth |-> Min(ToPixels(normalizedZone.width, naturalWidth),
                             naturalWidth - startXPx),
         outputHeight |-> Min(ToPixels(normalizedZone.height, naturalHeight),
                              naturalHeight - startYPx)]

\* Lines 649-657: the source rectangle given to drawImage and the canvas size.
CropRect(zone, naturalWidth, naturalHeight) ==
    LET normalizedZone == normalizeZone(zone)
        startXPx == ToPixels(normalizedZone.x, naturalWidth)
        startYPx == ToPixels(normalizedZone.y, naturalHeight)
        selectionWidthPx == Max(1, ToPixels(normalizedZone.width, naturalWidth))
        selectionHeightPx == Max(1, ToPixels(normalizedZone.height, naturalHeight))
        availableWidth == Max(1, naturalWidth - startXPx)
        availableHeight == Max(1, naturalHeight - startYPx)
    IN  [startXPx |-> startXPx, startYPx |-> startYPx,
         outputWidth |-> Min(selectionWidthPx, availableWidth),
         outputHeight |-> Min(selectionHeightPx, availableHeight)]

\* Mutant of ZoneAttempt: the natural size of the image is not tested.
ZoneAttempt_unchecked(image, zone, contextOk) ==
    IF ~contextOk
    THEN [kind |-> "return"]
    ELSE [kind |-> "request",
          crop |-> CropRect(zone, image.naturalWidth, image.naturalHeight)]

\* What extractTextFromImageZone does before it awaits the recognition
\* service.  contextOk is whether canvas.getContext("2d") returned a context.
\*   "throw"   : line 645-647, the image has no natural size
\*   "return"  : line 664-666, no 2d context: the function returns ""
\*   "request" : line 680, Tesseract.recognize is called on the crop
ZoneAttempt(image, zone, contextOk) ==
    IF image.naturalWidth = 0 \/ image.naturalHeight = 0
    THEN [kind |-> "throw"]
    ELSE IF ~contextOk
    THEN [kind |-> "return"]
    ELSE [kind |-> "request",
          crop |-> CropRect(zone, image.naturalWidth, image.naturalHeight)]

\* Mutant of LoggerProgress: the percentage is cut off instead of rounded.
LoggerProgress_truncated(message) ==
    IF message.status # "" /\ message.isNumber
    THEN [status |-> <<message.status>>,
          progress |-> message.progress \div 10]
    ELSE NULL

\* The logger of Tesseract.recognize (lines 624-631, 681-688): the progress
\* record handed to onProgress, or NULL when the message is not forwarded.
\* message.progress is a fraction in thousandths; message.isNumber is
\* typeof message.progress === "number".
LoggerProgress(message) ==
    IF message.status # "" /\ message.isNumber
    THEN [status |-> <<message.status>>,
          progress |-> RoundDiv(message.progress, 10)]
    ELSE NULL

(***************************************************************************)
(* Assessment: the text accumulator and the zone registry.                 *)
(***************************************************************************)
\* Mutant of MergeText: the buffer is overwritten with the extracted text, as
\* a merge into a buffer captured empty at the start of the job would do.
MergeText_overwrite(prev, extracted) == extracted

\* Mutant of MergeText: a text the buffer already holds is not added again.
MergeText_deduplicated(prev, extracted) ==
    IF Trim(prev) = <<>> THEN extracted
    ELSE IF \E k \in 1..Len(prev) :
               /\ k + Len(extracted) - 1 <= Len(prev)
               /\ SubSeq(prev, k, k + Len(extracted) - 1) = extracted
    THEN prev
    ELSE Trim(prev) \o BlankLine \o extracted

\* The updater appendExtractedText passes to setText (lines 211-217).
MergeText(prev, extracted) ==
    IF Trim(prev) = <<>> THEN extracted
    ELSE Trim(prev) \o BlankLine \o extracted

\* Mutant of appendExtractedText: the buffer is not trimmed before the
\* separator is added.
appendExtractedText_untrimmed(prev, extracted) ==
    IF extracted = <<>>
    THEN [text |-> prev, toast |-> "no new text"]
    ELSE [text |-> IF Trim(prev) = <<>> THEN extracted
                   ELSE prev \o BlankLine \o extracted,
          toast |-> ""]

\* appendExtractedText (lines 205-218): the new buffer and the toast it shows
\* ("" when it shows none).
appendExtractedText(prev, extracted) ==
    IF extracted = <<>>
    THEN [text |-> prev, toast |-> "no new text"]
    ELSE [text |-> MergeText(prev, extracted), toast |-> ""]

\* createZoneId: crypto.randomUUID(), a value never returned before.
createZoneId(count) == count + 1

\* Mutant of AddZone: the new entry is put at the head of the registry.
AddZone_atHead(prev, zone, id) ==
    <<[x |-> zone.x, y |-> zone.y, width |-> zone.width,
       height |-> zone.height, id |-> id]>> \o prev

\* The updater of handleAddZone (line 236).
AddZone(prev, zone, id) ==
    Append(prev, [x |-> zone.x, y |-> zone.y, width |-> zone.width,
                  height |-> zone.height, id |-> id])

\* Mutant of RemoveZone: when no entry has the id, the first entry goes.
RemoveZone_orFirst(prev, id) ==
    IF \E k \in 1..Len(prev) : prev[k].id = id
    THEN SelectSeq(prev, LAMBDA zone : zone.id # id)
    ELSE IF prev = <<>> THEN prev ELSE Tail(prev)


\* Mutant of RemoveZone: the entries behind the removed one go with it.
RemoveZone_andFollowing(prev, id) ==
    IF \E k \in 1..Len(prev) : prev[k].id = id
    THEN SubSeq(prev, 1, (CHOOSE k \in 1..Len(prev) : prev[k].id = id) - 1)
    ELSE prev

\* The updater of handleRemoveZone (line 240).
RemoveZone(prev, id) == SelectSeq(prev, LAMBDA zone : zone.id # id)

(***************************************************************************)
(* Initial state: the state of Assessment after its first render.          *)
(***************************************************************************)
\* No activation yet: a job record with pc = "idle".
IdleImgJob ==
    [kind |-> "none", pc |-> "idle", image |-> NULL, zones |-> <<>>, i |-> 1,
     zoneResults |-> <<>>, extracted |-> <<>>, requests |-> <<>>,
     outstanding |-> {}, delivered |-> NULL, outcome |-> "", result |-> <<>>]

IdlePdfJob ==
    [pc |-> "idle", opened |-> FALSE, numPages |-> 0, pageNum |-> 0,
     pageTexts |-> <<>>, contents |-> <<>>, reports |-> <<>>,
     requests |-> <<>>, outstanding |-> {}, delivered |-> NULL,
     outcome |-> "", result |-> <<>>]

\* The record of an activation that has ended with the given outcome.
Settled(job, outcome) ==
    [job EXCEPT !.pc = "settled", !.delivered = NULL, !.outcome = outcome]

Init ==
    /\ text = <<>>
    /\ isAnalyzing = FALSE
    /\ isPdfExtracting = FALSE
    /\ isImageExtracting = FALSE
    /\ pdfProgress = NULL
    /\ imageProgress = NULL
    /\ selectedImageFile = NULL
    /\ imagePreviewUrl = NULL
    /\ ocrImageElement = NULL
    /\ ocrZones = <<>>
    /\ isOcrModalOpen = FALSE
    /\ ocrMode = "full"
    /\ originRef = NULL
    /\ draftRect = NULL
    /\ previews = {}
    /\ urlCount = 0
    /\ zoneIdCount = 0
    /\ pdfJob = IdlePdfJob
    /\ imgJob = IdleImgJob
    /\ toast = ""
    /\ call = NULL

(***************************************************************************)
(* Assessment: image selection.                                            *)
(***************************************************************************)
MAX_IMAGE_SIZE == 8 * 1024 * 1024
MAX_PDF_SIZE == 10 * 1024 * 1024

\* file.type.startsWith("image/")
IsImageType(type) == type \in {"image/png", "image/jpeg"}

\* The natural sizes of the images offered to the page: the 200x100 image of
\* the rasterizer example, a small image, and an image without intrinsic
\* size.
NaturalSizes == {<<200, 100>>, <<10, 10>>, <<0, 0>>}

ImageFiles ==
    {[type |-> "image/png", size |-> MAX_IMAGE_SIZE,
      naturalWidth |-> n[1], naturalHeight |-> n[2]] : n \in NaturalSizes}
    \cup {[type |-> "image/png", size |-> MAX_IMAGE_SIZE + 1,
           naturalWidth |-> 10, naturalHeight |-> 10],
          [type |-> "text/plain", size |-> 1,
           naturalWidth |-> 0, naturalHeight |-> 0]}

\* The OcrZoneSelector is mounted: the dialog is open (line 662), it has an
\* image (line 675) and the mode is "zones" (line 696).
SelectorMounted(open, url, mode) == open /\ url # NULL /\ mode = "zones"

\* The selector's own state lives as long as it is mounted.
SelectorKeeps(open, url, mode) ==
    IF SelectorMounted(open, url, mode)
    THEN UNCHANGED selVars
    ELSE originRef' = NULL /\ draftRect' = NULL

\* handleImageUpload (lines 309-366); file = NULL when the input holds no file.
handleImageUpload(file) ==
    /\ IF file = NULL
       THEN UNCHANGED <<imgVars, zoneVars, imageProgress, selVars, toast>>
       ELSE IF ~IsImageType(file.type)
       THEN /\ toast' = "images only"
            /\ UNCHANGED <<imgVars, zoneVars, imageProgress, selVars>>
       ELSE IF file.size > MAX_IMAGE_SIZE
       THEN /\ toast' = "image too large"
            /\ UNCHANGED <<imgVars, zoneVars, imageProgress, selVars>>
       ELSE /\ urlCount < MaxUrls
            /\ LET nextUrl == [blob |-> urlCount + 1]
                   previewImage == [src |-> nextUrl,
                                    naturalWidth |-> file.naturalWidth,
                                    naturalHeight |-> file.naturalHeight]
               IN  /\ selectedImageFile' = [id |-> urlCount + 1, size |-> file.size]
                   /\ imageProgress' = NULL
                   /\ ocrZones' = <<>>
                   /\ ocrImageElement' = NULL
                   /\ imagePreviewUrl' = nextUrl
                   /\ previews' = previews \cup {previewImage}
                   /\ urlCount' = urlCount + 1
                   /\ toast' = "image added"
                   /\ UNCHANGED <<isOcrModalOpen, ocrMode, zoneIdCount>>
                   /\ SelectorKeeps(isOcrModalOpen, nextUrl, ocrMode)
    /\ UNCHANGED <<text, isAnalyzing, isImageExtracting, imgJob, pdfJobVars, call>>

\* previewImage.onload (lines 341-345)
PreviewOnload(previewImage) ==
    /\ previewImage \in previews
    /\ previews' = previews \ {previewImage}
    /\ ocrImageElement' = previewImage
    /\ isOcrModalOpen' = TRUE
    /\ ocrMode' = "full"
    /\ originRef' = NULL /\ draftRect' = NULL
    /\ UNCHANGED <<text, isAnalyzing, selectedImageFile, imagePreviewUrl, urlCount,
                   zoneVars, imgJobVars, pdfJobVars, toast, call>>

\* previewImage.onerror (lines 346-358)
PreviewOnerror(previewImage) ==
    /\ previewImage \in previews
    /\ previews' = previews \ {previewImage}
    /\ toast' = "cannot show image"
    /\ imagePreviewUrl' = IF imagePreviewUrl = previewImage.src THEN NULL
                          ELSE imagePreviewUrl
    /\ selectedImageFile' = NULL
    /\ ocrImageElement' = NULL
    /\ isOcrModalOpen' = FALSE
    /\ originRef' = NULL /\ draftRect' = NULL
    /\ UNCHANGED <<text, isAnalyzing, ocrMode, urlCount, zoneVars, imgJobVars,
                   pdfJobVars, call>>

\* Mutant of clearImageSelection: the registry is kept.
clearImageSelection_keepsZones ==
    /\ selectedImageFile' = NULL
    /\ ocrImageElement' = NULL
    /\ imageProgress' = NULL
    /\ isOcrModalOpen' = FALSE
    /\ ocrMode' = "full"
    /\ imagePreviewUrl' = NULL
    /\ originRef' = NULL /\ draftRect' = NULL
    /\ UNCHANGED <<text, isAnalyzing, previews, urlCount, zoneVars,
                   isImageExtracting, imgJob, pdfJobVars, toast, call>>

\* clearImageSelection (lines 220-233)
clearImageSelection ==
    /\ selectedImageFile' = NULL
    /\ ocrImageElement' = NULL
    /\ ocrZones' = <<>>
    /\ imageProgress' = NULL
    /\ isOcrModalOpen' = FALSE
    /\ ocrMode' = "full"
    /\ imagePreviewUrl' = NULL
    /\ originRef' = NULL /\ draftRect' = NULL
    /\ UNCHANGED <<text, isAnalyzing, previews, urlCount, zoneIdCount,
                   isImageExtracting, imgJob, pdfJobVars, toast, call>>

\* setOcrMode(mode) of the two mode buttons (lines 678-693)
setOcrMode(mode) ==
    /\ ocrMode' = mode
    /\ SelectorKeeps(isOcrModalOpen, imagePreviewUrl, mode)
    /\ UNCHANGED <<text, isAnalyzing, selectedImageFile, imagePreviewUrl,
                   ocrImageElement, isOcrModalOpen, previews, urlCount, zoneVars,
                   imgJobVars, pdfJobVars, toast, call>>

(***************************************************************************)
(* Assessment: the zone registry handlers.                                 *)
(***************************************************************************)
\* handleAddZone (lines 235-237): the registry and the id counter after it.
handleAddZone(zone) ==
    /\ zoneIdCount < MaxZoneIds
    /\ ocrZones' = AddZone(ocrZones, zone, createZoneId(zoneIdCount))
    /\ zoneIdCount' = zoneIdCount + 1

\* handleRemoveZone (lines 239-241)
handleRemoveZone(id) ==
    /\ ocrZones' = RemoveZone(ocrZones, id)
    /\ UNCHANGED <<text, isAnalyzing, selVars, imgVars, zoneIdCount, imgJobVars,
                   pdfJobVars, toast, call>>

\* handleClearZones (line 243)
handleClearZones ==
    /\ ocrZones' = <<>>
    /\ UNCHANGED <<text, isAnalyzing, selVars, imgVars, zoneIdCount, imgJobVars,
                   pdfJobVars, toast, call>>

(***************************************************************************)
(* OcrZoneSelector: the pointer handlers.  The component is given           *)
(* disabled = isImageExtracting || !ocrImageElement (line 721) and          *)
(* onAddZone = handleAddZone (line 720).                                    *)
(***************************************************************************)
\* Mutant of disabled: the selector stays enabled while a job is in flight.
disabled_imageOnly == ocrImageElement = NULL

disabled == isImageExtracting \/ ocrImageElement = NULL

\* Mutant of handlePointerDown: a mouse press starts a drag whatever its
\* button.
handlePointerDown_anyButton(pointerType, button, raw) ==
    /\ IF disabled
       THEN UNCHANGED selVars
       ELSE LET start == getRelativePosition(raw)
            IN  /\ originRef' = [x |-> start.x, y |-> start.y,
                                 pointerType |-> pointerType, button |-> button]
                /\ draftRect' = [x |-> start.x, y |-> start.y,
                                 width |-> 0, height |-> 0]
    /\ UNCHANGED <<text, isAnalyzing, imgVars, zoneVars, imgJobVars, pdfJobVars,
                   toast, call>>

\* handlePointerDown (lines 35-48).  Next to the press point, originRef keeps
\* the pointerType and the button of the press that set it, the pointer that
\* setPointerCapture captures (line 47).
handlePointerDown(pointerType, button, raw) ==
    /\ IF disabled \/ (pointerType = "mouse" /\ button # 0)
       THEN UNCHANGED selVars
       ELSE LET start == getRelativePosition(raw)
            IN  /\ originRef' = [x |-> start.x, y |-> start.y,
                                 pointerType |-> pointerType, button |-> button]
                /\ draftRect' = [x |-> start.x, y |-> start.y,
                                 width |-> 0, height |-> 0]
    /\ UNCHANGED <<text, isAnalyzing, imgVars, zoneVars, imgJobVars, pdfJobVars,
                   toast, call>>

\* handlePointerMove (lines 50-66)
handlePointerMove(raw) ==
    /\ IF originRef = NULL \/ disabled
       THEN UNCHANGED selVars
       ELSE /\ draftRect' = DragRect(originRef, getRelativePosition(raw))
            /\ UNCHANGED originRef
    /\ UNCHANGED <<text, isAnalyzing, imgVars, zoneVars, imgJobVars, pdfJobVars,
                   toast, call>>

\* handlePointerUp (lines 68-85)
handlePointerUp ==
    /\ IF originRef = NULL \/ disabled
       THEN UNCHANGED zoneVars
       ELSE IF draftRect # NULL /\ LargeEnough(draftRect)
       THEN handleAddZone(CommitZone(draftRect))
       ELSE UNCHANGED zoneVars
    /\ originRef' = NULL
    /\ draftRect' = NULL
    /\ UNCHANGED <<text, isAnalyzing, imgVars, imgJobVars, pdfJobVars, toast, call>>

\* handlePointerLeave (lines 87-91)
handlePointerLeave ==
    /\ IF originRef # NULL
       THEN originRef' = NULL /\ draftRect' = NULL
       ELSE UNCHANGED selVars
    /\ UNCHANGED <<text, isAnalyzing, imgVars, zoneVars, imgJobVars, pdfJobVars,
                   toast, call>>

(***************************************************************************)
(* The activation of an image extraction.  imgJob is IdleImgJob or            *)
(*   kind        "zone"  a direct call of extractTextFromImageZone         *)
(*               "whole" handleExtractWholeImage                           *)
(*               "zones" handleExtractSelectedZones                        *)
(*   pc          "recognizing" (awaiting Tesseract.recognize), "settled"   *)
(*   image, zones  the ocrImageElement and ocrZones the handler closed over*)
(*   i           the 1-based position of the zone being extracted          *)
(*   zoneResults the array of labelled fragments                           *)
(*   extracted   what extractTextFromImageZone returned for the zones done,*)
(*               each with whether the recognition service produced it     *)
(*   requests    the calls of Tesseract.recognize made so far              *)
(*   outstanding the calls not settled yet                                 *)
(*   delivered   the last ExtractionProgress handed to onProgress while the*)
(*               activation is in flight                                   *)
(*   outcome     how the activation ended, which the handlers show as a    *)
(*               toast: "rejected" (lines 370, 402), "no text" (lines 386, *)
(*               428), "appended" (lines 389, 431), "error" (lines 393,    *)
(*               435); result is the text the extraction produced          *)
(***************************************************************************)
NewImgJob(kind, image, zones) ==
    [IdleImgJob EXCEPT !.kind = kind, !.pc = "running", !.image = image,
                       !.zones = zones]

\* The activation of a handler that returned at its precondition check.
RejectedImgJob(kind) ==
    [IdleImgJob EXCEPT !.kind = kind, !.pc = "settled", !.outcome = "rejected"]

\* Mutant of ZonesMissing: the registry is not looked at.
ZonesMissing_imageOnly(image, zones) == image = NULL

\* if (!ocrImageElement || !ocrZones.length) (line 401)
ZonesMissing(image, zones) == image = NULL \/ Len(zones) = 0

ZoneLabel == "Area"

\* `พื้นที่ ${i + 1}: ${extracted}` (line 422), position = i + 1
ZoneFragment(position, extracted) ==
    <<ZoneLabel, " ">> \o NumStr(position) \o <<":", " ">> \o extracted

\* Mutant of PushZoneResult: the fragment is labelled with its position among
\* the non-empty results.
PushZoneResult_renumbered(zoneResults, position, extracted) ==
    IF extracted # <<>>
    THEN Append(zoneResults, ZoneFragment(Len(zoneResults) + 1, extracted))
    ELSE zoneResults

\* if (extracted) { zoneResults.push(...) } (lines 421-423)
PushZoneResult(zoneResults, position, extracted) ==
    IF extracted # <<>>
    THEN Append(zoneResults, ZoneFragment(position, extracted))
    ELSE zoneResults

\* Mutant of ZoneStatus: the status counts the zones from 0.
ZoneStatus_zeroBased(position, count, status) ==
    <<ZoneLabel, " ">> \o NumStr(position - 1) \o <<"/">> \o NumStr(count)
        \o <<":", " ">> \o status

\* `พื้นที่ ${i + 1}/${ocrZones.length}: ${progress.status}` (line 416)
ZoneStatus(position, count, status) ==
    <<ZoneLabel, " ">> \o NumStr(position) \o <<"/">> \o NumStr(count)
        \o <<":", " ">> \o status

\* The loop of handleExtractSelectedZones (lines 412-424) from zone job.i up
\* to its next suspension: each extractTextFromImageZone call either throws,
\* returns "" without calling the service, or calls the service and suspends.
\* contextOk[k] is whether getContext("2d") gives a context for zone k.
RECURSIVE RunZones(_, _)
RunZones(job, contextOk) ==
    IF job.i > Len(job.zones)
    THEN [job EXCEPT !.pc = "finished"]
    ELSE LET attempt == ZoneAttempt(job.image, job.zones[job.i], contextOk[job.i])
         IN  IF attempt.kind = "throw"
             THEN [job EXCEPT !.pc = "failed"]
             ELSE IF attempt.kind = "return"
             THEN RunZones(
                    [job EXCEPT
                       !.extracted = Append(@, [text |-> <<>>, recognized |-> FALSE]),
                       !.zoneResults = PushZoneResult(@, job.i, <<>>),
                       !.i = @ + 1],
                    contextOk)
             ELSE [job EXCEPT
                     !.pc = "recognizing",
                     !.requests = Append(@, [index |-> job.i, crop |-> attempt.crop]),
                     !.outstanding = @ \cup {job.i}]

\* The job after the recognition of zone job.i resolved with data.text = raw
\* (line 691 and lines 421-423), before the loop goes on.
ZoneRecognized(job, raw) ==
    [job EXCEPT
       !.outstanding = @ \ {job.i},
       !.extracted = Append(@, [text |-> Trim(raw), recognized |-> TRUE]),
       !.zoneResults = PushZoneResult(@, job.i, Trim(raw)),
       !.i = @ + 1]

\* zoneResults.join("\n\n").trim() (line 426)
CombineZones(zoneResults) == Trim(Join(zoneResults, BlankLine))

MaxTextLen == 0

\* What the handler does once the loop has stopped at j (lines 426-439): go
\* on waiting, or merge / report and run the finally block.
ZonesSettle(j) ==
    IF j.pc = "recognizing"
    THEN /\ imgJob' = j
         /\ UNCHANGED text
    ELSE IF j.pc = "failed"
    THEN /\ imgJob' = Settled(j, "error")
         /\ isImageExtracting' = FALSE
         /\ imageProgress' = NULL
         /\ UNCHANGED text
    ELSE LET combined == CombineZones(j.zoneResults)
         IN  /\ isImageExtracting' = FALSE
             /\ imageProgress' = NULL
             /\ IF combined = <<>>
                THEN /\ imgJob' = [Settled(j, "no text") EXCEPT
                                            !.result = combined]
                     /\ UNCHANGED text
                ELSE /\ imgJob' = [Settled(j, "appended") EXCEPT
                                            !.result = combined]
                     /\ text' = appendExtractedText(text, combined).text

\* handleExtractSelectedZones (lines 400-440), up to its first suspension.
handleExtractSelectedZones(contextOk) ==
    /\ IF ZonesMissing(ocrImageElement, ocrZones)
       THEN /\ imgJob' = RejectedImgJob("zones")
            /\ UNCHANGED <<text, isImageExtracting, imageProgress>>
       ELSE /\ Len(text) <= MaxTextLen
            /\ LET j == RunZones(NewImgJob("zones", ocrImageElement, ocrZones),
                                 contextOk)
               IN  /\ ZonesSettle(j)
                   /\ IF j.pc = "recognizing"
                      THEN /\ isImageExtracting' = TRUE
                           /\ imageProgress' = [status |-> <<"processing zones">>,
                                                progress |-> 0]
                      ELSE TRUE
    /\ UNCHANGED <<isAnalyzing, selVars, imgVars, zoneVars, pdfJobVars, toast, call>>

\* The logger callback of the outstanding call of a zone-sequence job
\* (lines 414-418).
ZoneSequenceLogs(message) ==
    /\ imgJob.pc = "recognizing" /\ imgJob.kind = "zones"
    /\ LET progress == LoggerProgress(message)
       IN  IF progress = NULL
           THEN UNCHANGED <<imageProgress, imgJob>>
           ELSE /\ imgJob' = [imgJob EXCEPT !.delivered = progress]
                /\ imageProgress' =
                     [status |-> ZoneStatus(imgJob.i, Len(imgJob.zones),
                                            progress.status),
                      progress |-> progress.progress]
    /\ UNCHANGED <<text, isAnalyzing, selVars, imgVars, zoneVars, isImageExtracting,
                   pdfJobVars, toast, call>>

\* Tesseract.recognize of zone imgJob.i resolves with data.text = raw.
ZoneSequenceResolves(raw, contextOk) ==
    /\ imgJob.pc = "recognizing" /\ imgJob.kind = "zones"
    /\ LET j == RunZones(ZoneRecognized(imgJob, raw), contextOk)
       IN  /\ ZonesSettle(j)
           /\ IF j.pc = "recognizing"
              THEN UNCHANGED <<isImageExtracting, imageProgress>>
              ELSE TRUE
    /\ UNCHANGED <<isAnalyzing, selVars, imgVars, zoneVars, pdfJobVars, toast, call>>

\* Mutant of ZoneSequenceRejects: the finally block does not run.
ZoneSequenceRejects_noFinally ==
    /\ imgJob.pc = "recognizing" /\ imgJob.kind = "zones"
    /\ imgJob' = [Settled(imgJob, "error") EXCEPT
                                !.outstanding = @ \ {imgJob.i}]
    /\ UNCHANGED <<text, isAnalyzing, selVars, imgVars, zoneVars, isImageExtracting,
                   imageProgress, pdfJobVars, toast, call>>

\* Tesseract.recognize of zone imgJob.i rejects: the catch and finally blocks
\* of the handler run (lines 433-439).
ZoneSequenceRejects ==
    /\ imgJob.pc = "recognizing" /\ imgJob.kind = "zones"
    /\ imgJob' = [Settled(imgJob, "error") EXCEPT
                                !.outstanding = @ \ {imgJob.i}]
    /\ isImageExtracting' = FALSE
    /\ imageProgress' = NULL
    /\ UNCHANGED <<text, isAnalyzing, selVars, imgVars, zoneVars, pdfJobVars,
                   toast, call>>

(***************************************************************************)
(* Whole-image recognition: handleExtractWholeImage (lines 368-398) and    *)
(* extractTextFromImage (part_001 lines 619-635).                          *)
(***************************************************************************)
handleExtractWholeImage ==
    /\ IF selectedImageFile = NULL
       THEN /\ imgJob' = RejectedImgJob("whole")
            /\ UNCHANGED <<isImageExtracting, imageProgress>>
       ELSE /\ Len(text) <= MaxTextLen
            /\ isImageExtracting' = TRUE
            /\ imageProgress' = [status |-> <<"converting whole image">>,
                                 progress |-> 0]
            /\ imgJob' = [NewImgJob("whole", selectedImageFile, <<>>) EXCEPT
                            !.pc = "recognizing",
                            !.requests = <<[index |-> 1, crop |-> NULL]>>,
                            !.outstanding = {1}]
    /\ UNCHANGED <<text, isAnalyzing, selVars, imgVars, zoneVars, pdfJobVars,
                   toast, call>>

\* `OCR ทั้งรูป: ${progress.status}` (line 380)
WholeStatus(status) == <<"OCR whole image", ":", " ">> \o status

WholeImageLogs(message) ==
    /\ imgJob.pc = "recognizing" /\ imgJob.kind = "whole"
    /\ LET progress == LoggerProgress(message)
       IN  IF progress = NULL
           THEN UNCHANGED <<imageProgress, imgJob>>
           ELSE /\ imgJob' = [imgJob EXCEPT !.delivered = progress]
                /\ imageProgress' = [status |-> WholeStatus(progress.status),
                                     progress |-> progress.progress]
    /\ UNCHANGED <<text, isAnalyzing, selVars, imgVars, zoneVars, isImageExtracting,
                   pdfJobVars, toast, call>>

\* Mutant of WholeImageResolves: the recognized text replaces the buffer, as
\* setText(extracted) in place of the updater of appendExtractedText would.
WholeImageResolves_replacesBuffer(raw) ==
    /\ imgJob.pc = "recognizing" /\ imgJob.kind = "whole"
    /\ LET extracted == Trim(raw)
       IN  IF extracted = <<>>
           THEN /\ imgJob' = [Settled(imgJob, "no text") EXCEPT
                                            !.outstanding = {},
                                            !.extracted = <<[text |-> extracted,
                                                             recognized |-> TRUE]>>,
                                            !.result = extracted]
                /\ UNCHANGED text
           ELSE /\ imgJob' = [Settled(imgJob, "appended") EXCEPT
                                            !.outstanding = {},
                                            !.extracted = <<[text |-> extracted,
                                                             recognized |-> TRUE]>>,
                                            !.result = extracted]
                /\ text' = extracted
    /\ isImageExtracting' = FALSE
    /\ imageProgress' = NULL
    /\ UNCHANGED <<isAnalyzing, selVars, imgVars, zoneVars, pdfJobVars, toast, call>>

WholeImageResolves(raw) ==
    /\ imgJob.pc = "recognizing" /\ imgJob.kind = "whole"
    /\ LET extracted == Trim(raw)
       IN  IF extracted = <<>>
           THEN /\ imgJob' = [Settled(imgJob, "no text") EXCEPT
                                            !.outstanding = {},
                                            !.extracted = <<[text |-> extracted,
                                                             recognized |-> TRUE]>>,
                                            !.result = extracted]
                /\ UNCHANGED text
           ELSE /\ imgJob' = [Settled(imgJob, "appended") EXCEPT
                                            !.outstanding = {},
                                            !.extracted = <<[text |-> extracted,
                                                             recognized |-> TRUE]>>,
                                            !.result = extracted]
                /\ text' = appendExtractedText(text, extracted).text
    /\ isImageExtracting' = FALSE
    /\ imageProgress' = NULL
    /\ UNCHANGED <<isAnalyzing, selVars, imgVars, zoneVars, pdfJobVars, toast, call>>

WholeImageRejects ==
    /\ imgJob.pc = "recognizing" /\ imgJob.kind = "whole"
    /\ imgJob' = [Settled(imgJob, "error") EXCEPT
                                !.outstanding = {}]
    /\ isImageExtracting' = FALSE
    /\ imageProgress' = NULL
    /\ UNCHANGED <<text, isAnalyzing, selVars, imgVars, zoneVars, pdfJobVars,
                   toast, call>>

(***************************************************************************)
(* extractTextFromImageZone called on its own (part_001 lines 637-692):    *)
(* outcome "threw", or "returned" with result the returned string.         *)
(***************************************************************************)
extractTextFromImageZone(image, zone, contextOk) ==
    /\ imgJob.pc = "idle"
    /\ LET j == RunZones(NewImgJob("zone", image, <<zone>>), <<contextOk>>)
       IN  imgJob' =
             IF j.pc = "failed"
             THEN Settled(j, "threw")
             ELSE IF j.pc = "finished"
             THEN [Settled(j, "returned") EXCEPT
                            !.result = j.extracted[1].text]
             ELSE j
    /\ UNCHANGED <<text, isAnalyzing, selVars, imgVars, zoneVars, isImageExtracting,
                   imageProgress, pdfJobVars, toast, call>>

ZoneCallLogs(message) ==
    /\ imgJob.pc = "recognizing" /\ imgJob.kind = "zone"
    /\ LET progress == LoggerProgress(message)
       IN  IF progress = NULL
           THEN UNCHANGED imgJob
           ELSE imgJob' = [imgJob EXCEPT !.delivered = progress]
    /\ UNCHANGED <<text, isAnalyzing, selVars, imgVars, zoneVars, isImageExtracting,
                   imageProgress, pdfJobVars, toast, call>>

ZoneCallResolves(raw) ==
    /\ imgJob.pc = "recognizing" /\ imgJob.kind = "zone"
    /\ LET j == ZoneRecognized(imgJob, raw)
       IN  imgJob' = [Settled(j, "returned") EXCEPT
                               !.result = j.extracted[1].text]
    /\ UNCHANGED <<text, isAnalyzing, selVars, imgVars, zoneVars, isImageExtracting,
                   imageProgress, pdfJobVars, toast, call>>

ZoneCallRejects ==
    /\ imgJob.pc = "recognizing" /\ imgJob.kind = "zone"
    /\ imgJob' = [Settled(imgJob, "threw") EXCEPT
                                !.outstanding = {}]
    /\ UNCHANGED <<text, isAnalyzing, selVars, imgVars, zoneVars, isImageExtracting,
                   imageProgress, pdfJobVars, toast, call>>

(***************************************************************************)
(* Document text extraction: handlePdfUpload (lines 269-307) and           *)
(* extractTextFromPdf (part_001 lines 585-617).  pdfJob is IdlePdfJob or   *)
(*   pc          the await the activation is suspended at: "arrayBuffer",  *)
(*               "getDocument", "getPage", "getTextContent"; or "settled"  *)
(*   opened      getDocument resolved with a document                      *)
(*   numPages    pdf.numPages of that document                             *)
(*   pageNum     the page being read                                       *)
(*   pageTexts   the array of page texts                                   *)
(*   contents    the items getTextContent resolved with, page by page      *)
(*   reports     the ExtractionProgress values handed to onProgress        *)
(*   requests    the calls made to the parsing service so far              *)
(*   outstanding the calls not settled yet                                 *)
(*   delivered   the last ExtractionProgress handed to onProgress while the*)
(*               activation is in flight                                   *)
(*   outcome     how the activation ended, which the handler shows as a    *)
(*               toast: "not a pdf" (line 276), "too large" (line 282),    *)
(*               "no text" (line 294), "appended" (line 297), "error"      *)
(*               (line 301); result is the text extractTextFromPdf returned*)
(***************************************************************************)
NewPdfJob == [IdlePdfJob EXCEPT !.pc = "arrayBuffer"]

\* The activation of a handlePdfUpload that returned at one of its checks.
RejectedPdfJob(outcome) == [IdlePdfJob EXCEPT !.pc = "settled", !.outcome = outcome]

PdfFiles ==
    {[type |-> "application/pdf", size |-> MAX_PDF_SIZE],
     [type |-> "application/pdf", size |-> MAX_PDF_SIZE + 1],
     [type |-> "image/png", size |-> 1]}

\* The text content of a page: items with a str, and marked content without.
PageContents ==
    {<<>>,
     <<[str |-> <<" ">>], [type |-> "beginMarkedContent"], [str |-> <<"q">>]>>}

\* "str" in item ? item.str : "" (lines 598-603)
ItemString(item) == IF "str" \in DOMAIN item THEN item.str ELSE <<>>

\* textContent.items.map(...).join(" ") then trim (lines 597-606)
PageText(items) ==
    Trim(Join([k \in 1..Len(items) |-> ItemString(items[k])], <<" ">>))

\* (pageNum / pdf.numPages) * 100 is a product of doubles.  For these
\* <<pageNum, numPages>>, the only ones among the page counts of the model,
\* 100 * pageNum / numPages is exactly halfway between two integers and the
\* product of doubles is just below it (23 / 40 * 100 = 57.49999999999999),
\* so that Math.round gives the integer below.
RoundsBelowHalf == {<<23, 40>>}

\* Mutant of PdfProgress: the percentage is truncated, not rounded.
PdfProgress_truncated(pageNum, numPages) ==
    [status |-> <<"reading page", " ">> \o NumStr(pageNum) \o <<"/">>
                  \o NumStr(numPages),
     progress |-> (pageNum * 100) \div numPages]

\* The ExtractionProgress of lines 609-612
PdfProgress(pageNum, numPages) ==
    [status |-> <<"reading page", " ">> \o NumStr(pageNum) \o <<"/">>
                  \o NumStr(numPages),
     progress |-> IF <<pageNum, numPages>> \in RoundsBelowHalf
                  THEN RoundDiv(pageNum * 100, numPages) - 1
                  ELSE RoundDiv(pageNum * 100, numPages)]

\* Mutant of CombinePages: pages without text are left out of the join.
CombinePages_skipEmpty(pageTexts) ==
    Trim(Join(SelectSeq(pageTexts, LAMBDA pageText : pageText # <<>>), BlankLine))

\* pageTexts.join("\n\n").trim() (line 616)
CombinePages(pageTexts) == Trim(Join(pageTexts, BlankLine))

PdfCall(op, page) == [op |-> op, page |-> page]

\* Mutant of PdfNextPage: the page just read is requested once more before
\* the loop moves on.
PdfNextPage_retry(job) ==
    IF job.pageNum + 1 <= job.numPages
    THEN LET page == Max(job.pageNum, 1)
         IN  [job EXCEPT !.pc = "getPage",
                         !.pageNum = page,
                         !.requests = Append(@, PdfCall("getPage", page)),
                         !.outstanding = @ \cup {PdfCall("getPage", page)}]
    ELSE [job EXCEPT !.pc = "finished"]

\* The for statement of line 593 after page job.pageNum: request the next
\* page or leave the loop.
PdfNextPage(job) ==
    IF job.pageNum + 1 <= job.numPages
    THEN [job EXCEPT !.pc = "getPage",
                     !.pageNum = @ + 1,
                     !.requests = Append(@, PdfCall("getPage", job.pageNum + 1)),
                     !.outstanding = @ \cup {PdfCall("getPage", job.pageNum + 1)}]
    ELSE [job EXCEPT !.pc = "finished"]

\* What handlePdfUpload does once extractTextFromPdf has stopped at j
\* (lines 291-306).
PdfSettle(j) ==
    IF j.pc # "finished"
    THEN /\ pdfJob' = j
         /\ UNCHANGED <<text, isPdfExtracting>>
    ELSE LET extracted == CombinePages(j.pageTexts)
         IN  /\ isPdfExtracting' = FALSE
             /\ IF extracted = <<>>
                THEN /\ pdfJob' = [Settled(j, "no text") EXCEPT
                                            !.result = extracted]
                     /\ UNCHANGED text
                ELSE /\ pdfJob' = [Settled(j, "appended") EXCEPT
                                            !.result = extracted]
                     /\ text' = appendExtractedText(text, extracted).text

\* handlePdfUpload (lines 269-307) up to await file.arrayBuffer() (line 589);
\* file = NULL when the input holds no file.
handlePdfUpload(file) ==
    /\ IF file = NULL
       THEN UNCHANGED pdfJobVars
       ELSE IF file.type # "application/pdf"
       THEN /\ pdfJob' = RejectedPdfJob("not a pdf")
            /\ UNCHANGED <<isPdfExtracting, pdfProgress>>
       ELSE IF file.size > MAX_PDF_SIZE
       THEN /\ pdfJob' = RejectedPdfJob("too large")
            /\ UNCHANGED <<isPdfExtracting, pdfProgress>>
       ELSE /\ Len(text) <= MaxTextLen
            /\ isPdfExtracting' = TRUE
            /\ pdfProgress' = [status |-> <<"preparing pdf">>, progress |-> 0]
            /\ pdfJob' = NewPdfJob
    /\ UNCHANGED <<text, isAnalyzing, selVars, imgVars, zoneVars, imgJobVars,
                   toast, call>>

\* file.arrayBuffer() resolves; getDocument is called (line 590).
ArrayBufferResolves ==
    /\ pdfJob.pc = "arrayBuffer"
    /\ pdfJob' = [pdfJob EXCEPT !.pc = "getDocument",
                                !.requests = Append(@, PdfCall("getDocument", 0)),
                                !.outstanding = @ \cup {PdfCall("getDocument", 0)}]
    /\ UNCHANGED <<text, isAnalyzing, selVars, imgVars, zoneVars, imgJobVars,
                   isPdfExtracting, pdfProgress, toast, call>>

\* getDocument(...).promise resolves with a document of numPages pages.
GetDocumentResolves(numPages) ==
    /\ pdfJob.pc = "getDocument"
    /\ LET j == PdfNextPage([pdfJob EXCEPT
                               !.opened = TRUE,
                               !.numPages = numPages,
                               !.outstanding = @ \ {PdfCall("getDocument", 0)}])
       IN  /\ PdfSettle(j)
           /\ pdfProgress' = IF j.pc = "finished" THEN NULL ELSE pdfProgress
    /\ UNCHANGED <<isAnalyzing, selVars, imgVars, zoneVars, imgJobVars, toast, call>>

\* pdf.getPage(pageNum) resolves; page.getTextContent() is called (line 595).
GetPageResolves ==
    /\ pdfJob.pc = "getPage"
    /\ pdfJob' = [pdfJob EXCEPT
                    !.pc = "getTextContent",
                    !.requests = Append(@, PdfCall("getTextContent", pdfJob.pageNum)),
                    !.outstanding = (@ \ {PdfCall("getPage", pdfJob.pageNum)})
                                    \cup {PdfCall("getTextContent", pdfJob.pageNum)}]
    /\ UNCHANGED <<text, isAnalyzing, selVars, imgVars, zoneVars, imgJobVars,
                   isPdfExtracting, pdfProgress, toast, call>>

\* page.getTextContent() resolves with items: lines 597-613, then the next
\* page or the end of the function.
GetTextContentResolves(items) ==
    /\ pdfJob.pc = "getTextContent"
    /\ LET progress == PdfProgress(pdfJob.pageNum, pdfJob.numPages)
           j == PdfNextPage([pdfJob EXCEPT
                               !.pageTexts = Append(@, PageText(items)),
                               !.contents = Append(@, items),
                               !.reports = Append(@, progress),
                               !.delivered = progress,
                               !.outstanding =
                                  @ \ {PdfCall("getTextContent", pdfJob.pageNum)}])
       IN  /\ PdfSettle(j)
           /\ pdfProgress' = IF j.pc = "finished" THEN NULL ELSE progress
    /\ UNCHANGED <<isAnalyzing, selVars, imgVars, zoneVars, imgJobVars, toast, call>>

\* Mutant of PdfAwaitRejects: the texts of the pages read before the failure
\* are appended to the buffer.
PdfAwaitRejects_keepsPages ==
    /\ pdfJob.pc \in {"arrayBuffer", "getDocument", "getPage", "getTextContent"}
    /\ pdfJob' = [Settled(pdfJob, "error") EXCEPT
                                !.outstanding = {}]
    /\ text' = appendExtractedText(text, CombinePages(pdfJob.pageTexts)).text
    /\ isPdfExtracting' = FALSE
    /\ pdfProgress' = NULL
    /\ UNCHANGED <<isAnalyzing, selVars, imgVars, zoneVars, imgJobVars, toast, call>>

\* The await the activation is suspended at rejects: the catch and finally
\* blocks of handlePdfUpload run (lines 299-306).
PdfAwaitRejects ==
    /\ pdfJob.pc \in {"arrayBuffer", "getDocument", "getPage", "getTextContent"}
    /\ pdfJob' = [Settled(pdfJob, "error") EXCEPT
                                !.outstanding = {}]
    /\ isPdfExtracting' = FALSE
    /\ pdfProgress' = NULL
    /\ UNCHANGED <<text, isAnalyzing, selVars, imgVars, zoneVars, imgJobVars,
                   toast, call>>

\* The textarea's onChange (line 625)
setText(value) ==
    /\ text' = value
    /\ UNCHANGED <<isAnalyzing, selVars, imgVars, zoneVars, imgJobVars, pdfJobVars,
                   toast, call>>

(***************************************************************************)
(* The controls of the page: each handler behind the guard of the control  *)
(* that calls it.                                                          *)
(***************************************************************************)
\* <Input type="file" accept="image/*"> (lines 553-558)
UploadImage(files) ==
    /\ ~(isAnalyzing \/ isImageExtracting)
    /\ \E file \in files : handleImageUpload(file)

ImageLoads == \E previewImage \in previews : PreviewOnload(previewImage)

ImageFails == \E previewImage \in previews : PreviewOnerror(previewImage)

\* The "delete image" button (lines 587-594)
DeleteImage ==
    /\ imagePreviewUrl # NULL
    /\ ~isImageExtracting
    /\ clearImageSelection

\* The mode buttons of the dialog (lines 678-693)
ChooseMode ==
    /\ isOcrModalOpen /\ imagePreviewUrl # NULL
    /\ ~isImageExtracting
    /\ \E mode \in {"full", "zones"} : setOcrMode(mode)

\* The registry list of the dialog (lines 724-768)
RemoveZoneClick ==
    /\ SelectorMounted(isOcrModalOpen, imagePreviewUrl, ocrMode)
    /\ ~isImageExtracting
    /\ \E i \in 1..Len(ocrZones) : handleRemoveZone(ocrZones[i].id)

ClearZonesClick ==
    /\ SelectorMounted(isOcrModalOpen, imagePreviewUrl, ocrMode)
    /\ Len(ocrZones) > 0
    /\ ~isImageExtracting
    /\ handleClearZones

\* Pointer positions offered to the selector, as getRelativePosition computes
\* them before clamping, in eighths of a percent: 1 px and 9 px into an 800 px
\* container are 1 and 9, a pointer outside the container is below 0 or
\* above 800.
RawPoints == {<<-8, -8>>, <<1, 1>>, <<9, 1>>, <<9, 9>>, <<808, 808>>}

\* event.pointerType and event.button of a pointer-down
PointerKinds == {<<"mouse", 0>>, <<"mouse", 2>>, <<"touch", 0>>}

PointerDown ==
    /\ SelectorMounted(isOcrModalOpen, imagePreviewUrl, ocrMode)
    /\ \E kind \in PointerKinds, raw \in RawPoints :
          handlePointerDown(kind[1], kind[2], raw)

PointerMove ==
    /\ SelectorMounted(isOcrModalOpen, imagePreviewUrl, ocrMode)
    /\ \E raw \in RawPoints : handlePointerMove(raw)

PointerUp ==
    /\ SelectorMounted(isOcrModalOpen, imagePreviewUrl, ocrMode)
    /\ handlePointerUp

PointerLeave ==
    /\ SelectorMounted(isOcrModalOpen, imagePreviewUrl, ocrMode)
    /\ handlePointerLeave

(***************************************************************************)
(* SpecSelector: one image, the zone selector and the registry.            *)
(***************************************************************************)
SelectorFiles == {f \in ImageFiles : f.naturalWidth = 200}

UploadForSelector == urlCount < MaxUploads /\ UploadImage(SelectorFiles)

NextSelector ==
    \/ UploadForSelector
    \/ ImageLoads
    \/ ChooseMode
    \/ PointerDown
    \/ PointerMove
    \/ PointerUp
    \/ PointerLeave
    \/ RemoveZoneClick
    \/ ClearZonesClick

SpecSelector == Init /\ [][NextSelector]_vars

\* C1: every zone a completed drag hands to onAddZone (the registry holds
\* them as handed over) has x, y, width and height within [0,100] and
\* x + width <= 100 and y + height <= 100.
C1_HandedZoneInsideImage ==
    \A i \in 1..Len(ocrZones) :
        LET zone == ocrZones[i]
        IN  /\ 0 <= zone.x /\ zone.x <= 10000
            /\ 0 <= zone.y /\ zone.y <= 10000
            /\ 0 <= zone.width /\ zone.width <= 10000
            /\ 0 <= zone.height /\ zone.height <= 10000
            /\ zone.x + zone.width <= 10000
            /\ zone.y + zone.height <= 10000


\* C13: in every state reachable through pointer gestures every zone of the
\* registry has width >= 1 percent and height >= 1 percent after rounding to
\* two decimals, and a release after a press without movement, or after a drag
\* shorter than 1 percent in width or in height, adds no zone.
C13_RegistryZonesLargeEnough ==
    /\ [](\A k \in 1..Len(ocrZones) :
             ocrZones[k].width >= 100 /\ ocrZones[k].height >= 100)
    /\ [][(/\ originRef # NULL /\ originRef' = NULL
           /\ draftRect # NULL
           /\ (draftRect.width < PercentUnits \/ draftRect.height < PercentUnits))
          => /\ ocrZones' = ocrZones
             /\ zoneIdCount' = zoneIdCount]_vars

\* C13 witness: a drag of exactly 1 percent in both directions was released
\* and its zone, 1.00 wide and 1.00 high, is in the registry.
C13_Witness ==
    \E k \in 1..Len(ocrZones) :
       ocrZones[k].width = 100 /\ ocrZones[k].height = 100

\* C23: the rectangle of a drag does not depend on its direction: while the
\* pointer is down the press point is a corner of the rectangle, whose x and
\* y are the smaller coordinates and whose extents are not negative, and
\* every move sets x, y to the per-axis minimum and width, height to the
\* per-axis absolute difference of the clamped press and current points,
\* an expression that is the same for p -> q and q -> p.
C23_DragDirection ==
    /\ []((originRef # NULL /\ draftRect # NULL)
          => /\ draftRect.width >= 0 /\ draftRect.height >= 0
             /\ originRef.x \in {draftRect.x, draftRect.x + draftRect.width}
             /\ originRef.y \in {draftRect.y, draftRect.y + draftRect.height})
    /\ [][(/\ originRef # NULL /\ originRef' = originRef
           /\ draftRect' # draftRect)
          => \E raw \in RawPoints :
                LET p == originRef
                    q == getRelativePosition(raw)
                IN  /\ draftRect'.x = Min(p.x, q.x)
                    /\ draftRect'.y = Min(p.y, q.y)
                    /\ draftRect'.width = Abs(p.x - q.x)
                    /\ draftRect'.height = Abs(q.y - p.y)
                    /\ draftRect'.x = Min(q.x, p.x)
                    /\ draftRect'.width = Abs(q.x - p.x)]_vars

\* C23 witness: a drag towards the upper left (pressed at 1.125, now at
\* 0.125) next to a zone committed from the drag 0.125 -> 1.125.
C23_Witness ==
    /\ originRef # NULL /\ draftRect # NULL
    /\ originRef.x = 9 /\ originRef.y = 9
    /\ draftRect = [x |-> 1, y |-> 1, width |-> 8, height |-> 8]
    /\ \E k \in 1..Len(ocrZones) :
          [x |-> ocrZones[k].x, y |-> ocrZones[k].y,
           width |-> ocrZones[k].width, height |-> ocrZones[k].height]
             = CommitZone(draftRect)

(***************************************************************************)
(* The extraction jobs of the page.  The footer button of the dialog calls *)
(* handleExtractWholeImage in mode "full" and handleExtractSelectedZones   *)
(* in mode "zones" (line 792) unless an analysis or an image job is in     *)
(* flight (lines 794-795); the handlers check their own preconditions      *)
(* (lines 369, 401).                                                       *)
(*   SpecImage: the image jobs (whole image and zone sequence) on a        *)
(*              decodable image and on one without natural size, with      *)
(*              edits of the buffer.                                       *)
(*   SpecJobs:  a document job and a zone-sequence job side by side, with  *)
(*              edits of the buffer.                                       *)
(***************************************************************************)
\* data.text of a resolved Tesseract.recognize
RawTexts == {<<"\n">>, <<" ", "t", "\n">>}

\* The messages Tesseract hands to the logger
RecognizeMessages ==
    {[status |-> "recognizing text", isNumber |-> TRUE, progress |-> 495],
     [status |-> "", isNumber |-> TRUE, progress |-> 500],
     [status |-> "loading", isNumber |-> FALSE, progress |-> 0]}

ImageJobFiles ==
    {f \in ImageFiles : f.naturalWidth \in {200, 0} /\ IsImageType(f.type)
                           /\ f.size <= MAX_IMAGE_SIZE}

JobFiles == {f \in ImageJobFiles : f.naturalWidth = 200}

\* Zones the selector hands to onAddZone
JobZones == {[x |-> 5000, y |-> 5000, width |-> 5000, height |-> 5000]}

\* Values typed into the textarea
EditTexts == {<<>>, <<"m", " ">>}

UploadForImageJobs == urlCount < MaxUploads /\ UploadImage(ImageJobFiles)

\* SpecJobs selects its image once: replacing and deleting the image around
\* zone-sequence jobs is SpecDialog's part.
UploadForJobs == selectedImageFile = NULL /\ UploadImage(JobFiles)

\* A completed drag on the enabled selector: onAddZone(zone)
CommitDrag ==
    /\ SelectorMounted(isOcrModalOpen, imagePreviewUrl, ocrMode)
    /\ ~disabled
    /\ \E zone \in JobZones : handleAddZone(zone)
    /\ UNCHANGED <<text, isAnalyzing, selVars, imgVars, imgJobVars, pdfJobVars, toast, call>>

ExtractWholeClick ==
    /\ ~(isAnalyzing \/ isImageExtracting)
    /\ isOcrModalOpen /\ imagePreviewUrl # NULL
    /\ ocrMode = "full"
    /\ handleExtractWholeImage

ExtractZonesClick ==
    /\ ~(isAnalyzing \/ isImageExtracting)
    /\ isOcrModalOpen /\ imagePreviewUrl # NULL
    /\ ocrMode = "zones"
    /\ \E contextOk \in [1..Len(ocrZones) -> BOOLEAN] :
          handleExtractSelectedZones(contextOk)

WholeImageProgress == \E message \in RecognizeMessages : WholeImageLogs(message)

WholeImageDone == \E raw \in RawTexts : WholeImageResolves(raw)

ZoneProgress == \E message \in RecognizeMessages : ZoneSequenceLogs(message)

ZoneDone ==
    \E raw \in RawTexts, contextOk \in [1..Len(imgJob.zones) -> BOOLEAN] :
        ZoneSequenceResolves(raw, contextOk)

\* Mutant of PdfUpload: the input is not disabled while a PDF job is in
\* flight.
PdfUpload_unguarded ==
    /\ ~isAnalyzing
    /\ \E file \in PdfFiles \cup {NULL} : handlePdfUpload(file)

\* <Input type="file" accept="application/pdf"> (lines 531-536)
PdfUpload ==
    /\ ~(isAnalyzing \/ isPdfExtracting)
    /\ \E file \in PdfFiles \cup {NULL} : handlePdfUpload(file)

PdfOpened == \E numPages \in 0..MaxPages : GetDocumentResolves(numPages)

PdfPageRead == \E items \in PageContents : GetTextContentResolves(items)

\* <Textarea disabled={isAnalyzing}> (lines 623-629)
EditText ==
    /\ ~isAnalyzing
    /\ \E value \in EditTexts : setText(value)

NextImage ==
    \/ UploadForImageJobs
    \/ ImageLoads
    \/ ChooseMode
    \/ CommitDrag
    \/ ExtractWholeClick
    \/ WholeImageProgress
    \/ WholeImageDone
    \/ WholeImageRejects
    \/ ExtractZonesClick
    \/ ZoneProgress
    \/ ZoneDone
    \/ ZoneSequenceRejects
    \/ EditText

SpecImage == Init /\ [][NextImage]_vars

NextJobs ==
    \/ UploadForJobs
    \/ ImageLoads
    \/ ChooseMode
    \/ CommitDrag
    \/ ExtractZonesClick
    \/ ZoneProgress
    \/ ZoneDone
    \/ ZoneSequenceRejects
    \/ PdfUpload
    \/ ArrayBufferResolves
    \/ PdfOpened
    \/ GetPageResolves
    \/ PdfPageRead
    \/ PdfAwaitRejects
    \/ EditText

SpecJobs == Init /\ [][NextJobs]_vars

\* C3: a failure of the parsing or recognition service at page k or zone k
\* aborts the job: the step that settles the job with an error requests
\* nothing more and leaves no call outstanding, returns no text (what was
\* read before k is discarded) and leaves the buffer as it is; and no step
\* of a job other than a successful settlement writes the buffer, so a
\* failed job never wrote it.
C3_FailureAbortsJob ==
    [][/\ (pdfJob' # pdfJob /\ pdfJob'.pc = "settled" /\ pdfJob'.outcome = "error")
          => /\ text' = text
             /\ pdfJob'.requests = pdfJob.requests
             /\ pdfJob'.outstanding = {}
             /\ pdfJob'.result = <<>>
       /\ (imgJob' # imgJob /\ imgJob'.kind = "zones" /\ imgJob'.pc = "settled"
               /\ imgJob'.outcome = "error")
          => /\ text' = text
             /\ imgJob'.requests =
                  (IF imgJob.pc = "recognizing" THEN imgJob.requests ELSE <<>>)
             /\ imgJob'.outstanding = {}
             /\ imgJob'.result = <<>>
       /\ ((pdfJob' # pdfJob \/ imgJob' # imgJob)
               /\ ~(pdfJob' # pdfJob /\ pdfJob'.outcome = "appended")
               /\ ~(imgJob' # imgJob /\ imgJob'.outcome = "appended"))
          => text' = text]_vars

\* C3 witness: a document job failed after page 1 had given text and a
\* zone-sequence job failed after zone 1 had given text.
C3_Witness ==
    /\ pdfJob.pc = "settled" /\ pdfJob.outcome = "error"
    /\ pdfJob.pageNum = 2 /\ Len(pdfJob.pageTexts) = 1 /\ pdfJob.pageTexts[1] # <<>>
    /\ pdfJob.result = <<>>
    /\ imgJob.kind = "zones" /\ imgJob.pc = "settled" /\ imgJob.outcome = "error"
    /\ Len(imgJob.requests) = 2 /\ imgJob.extracted[1].text # <<>>
    /\ text = <<>>

\* C4: within one document job and within one zone-sequence job the calls to
\* the service are made in increasing page / zone order, none is made twice,
\* and at most one call is outstanding: the outstanding call is the last one
\* requested.
C4_SequentialRequests ==
    /\ Cardinality(pdfJob.outstanding) <= 1
    /\ \A c \in pdfJob.outstanding :
          pdfJob.requests # <<>> /\ c = pdfJob.requests[Len(pdfJob.requests)]
    /\ \A a, b \in 1..Len(pdfJob.requests) :
          a < b => /\ pdfJob.requests[a] # pdfJob.requests[b]
                   /\ pdfJob.requests[a].page <= pdfJob.requests[b].page
    /\ Cardinality(imgJob.outstanding) <= 1
    /\ \A c \in imgJob.outstanding :
          imgJob.requests # <<>> /\ c = imgJob.requests[Len(imgJob.requests)].index
    /\ \A a, b \in 1..Len(imgJob.requests) :
          a < b => imgJob.requests[a].index < imgJob.requests[b].index

\* C4 witness: a document job has gone through two pages and a zone-sequence
\* job has called the service for two zones.
C4_Witness ==
    /\ Len(pdfJob.requests) = 5 /\ pdfJob.pc = "getTextContent"
    /\ imgJob.kind = "zones" /\ Len(imgJob.requests) = 2
    /\ imgJob.pc = "recognizing"

\* C5: the result of a zone-sequence job is the blank-line join, in registry
\* order, of "<label> i: <text_i>" for exactly the registry positions i whose
\* text is non-empty; it is empty when every zone is empty.
C5_ZoneSequenceResult ==
    (imgJob.kind = "zones" /\ imgJob.pc = "settled"
        /\ imgJob.outcome \in {"no text", "appended"})
    => LET n == Len(imgJob.zones)
           nonEmpty == SelectSeq([k \in 1..n |-> k],
                                 LAMBDA k : imgJob.extracted[k].text # <<>>)
           fragments == [m \in 1..Len(nonEmpty) |->
                           <<"Area", " ", Digits[nonEmpty[m]], ":", " ">>
                               \o imgJob.extracted[nonEmpty[m]].text]
       IN  /\ Len(imgJob.extracted) = n
           /\ imgJob.result = Join(fragments, <<"\n", "\n">>)
           /\ (nonEmpty = <<>>) = (imgJob.result = <<>>)
           /\ (imgJob.outcome = "no text") = (imgJob.result = <<>>)

\* C5 witness: zones [A, B], A recognized as empty and B as "t": the result
\* is the single fragment labelled 2.
C5_Witness ==
    /\ imgJob.kind = "zones" /\ imgJob.pc = "settled"
    /\ Len(imgJob.zones) = 2 /\ Len(imgJob.extracted) = 2
    /\ imgJob.extracted[1].text = <<>> /\ imgJob.extracted[2].text = <<"t">>
    /\ imgJob.result = <<"Area", " ", "2", ":", " ", "t">>

\* C28 as claimed: while a zone-sequence job over n zones is in flight, every
\* progress status on display starts with "<label> i/n: ", i being the index
\* of the zone whose recognition call is outstanding.
C28_EveryStatusPrefixed ==
    (imgJob.kind = "zones" /\ imgJob.pc = "recognizing" /\ imageProgress # NULL)
    => LET prefix == <<"Area", " ">> \o NumStr(imgJob.i) \o <<"/">>
                        \o NumStr(Len(imgJob.zones)) \o <<":", " ">>
       IN  /\ Len(imageProgress.status) >= Len(prefix)
           /\ SubSeq(imageProgress.status, 1, Len(prefix)) = prefix

\* C28 as it holds: the job starts over the n zones of the registry with the
\* fixed status "processing zones" at 0; every status a recognition callback
\* sets is "<label> i/n: " followed by the service's status, i being the
\* index of the zone whose call is outstanding when the callback fires; that
\* index never decreases during the job; and the status on display is the
\* fixed one or carries an index between 1 and the outstanding one.
C28_CallbackStatusPrefixed ==
    /\ [][(/\ imgJob.kind = "zones" /\ imgJob.pc = "recognizing"
           /\ imgJob'.pc = "recognizing"
           /\ imageProgress' # imageProgress)
          => /\ imgJob'.delivered # NULL
             /\ imgJob'.outstanding = {imgJob'.i}
             /\ imageProgress'.status
                   = <<"Area", " ">> \o NumStr(imgJob'.i) \o <<"/">>
                        \o NumStr(Len(imgJob'.zones)) \o <<":", " ">>
                        \o imgJob'.delivered.status]_vars
    /\ [][(imgJob.pc = "recognizing" /\ imgJob'.pc = "recognizing")
          => imgJob'.i >= imgJob.i /\ imgJob'.zones = imgJob.zones]_vars
    /\ [][(/\ imgJob.pc # "recognizing" /\ imgJob'.pc = "recognizing"
           /\ imgJob'.kind = "zones")
          => /\ Len(imgJob'.zones) = Len(ocrZones)
             /\ imageProgress'.status = <<"processing zones">>]_vars
    /\ []((imgJob.kind = "zones" /\ imgJob.pc = "recognizing")
          => /\ imageProgress # NULL
             /\ \/ imageProgress.status = <<"processing zones">>
                \/ \E i \in 1..imgJob.i :
                      LET prefix == <<"Area", " ">> \o NumStr(i) \o <<"/">>
                                       \o NumStr(Len(imgJob.zones))
                                       \o <<":", " ">>
                      IN  /\ Len(imageProgress.status) > Len(prefix)
                          /\ SubSeq(imageProgress.status, 1, Len(prefix))
                                = prefix)

\* C28 witness: the callback of the second of two zones has set the status
\* "Area 2/2: recognizing text".
C28_Witness ==
    /\ imgJob.kind = "zones" /\ imgJob.pc = "recognizing"
    /\ imgJob.i = 2 /\ imgJob.outstanding = {2}
    /\ imageProgress # NULL
    /\ imageProgress.status
          = <<"Area", " ", "2", "/", "2", ":", " ", "recognizing text">>

\* C7: the append done when a job settles is applied to the buffer as it is
\* at that moment: the trimmed content of the buffer, manual edits made
\* during the job included, is the prefix of the new buffer.
C7_EditsKept ==
    [][/\ (imgJob' # imgJob /\ imgJob'.pc = "settled" /\ imgJob'.outcome = "appended")
          => text' = (IF Trim(text) = <<>> THEN imgJob'.result
                      ELSE Trim(text) \o <<"\n", "\n">> \o imgJob'.result)
       /\ (pdfJob' # pdfJob /\ pdfJob'.pc = "settled" /\ pdfJob'.outcome = "appended")
          => text' = (IF Trim(text) = <<>> THEN pdfJob'.result
                      ELSE Trim(text) \o <<"\n", "\n">> \o pdfJob'.result)]_vars

\* C7 witness: "m " was typed while an image job was in flight (a job starts
\* on a buffer of at most MaxTextLen tokens) and the job then appended its
\* text behind the trimmed edit.
C7_Witness ==
    /\ imgJob.pc = "settled" /\ imgJob.outcome = "appended"
    /\ text = <<"m", "\n", "\n">> \o imgJob.result

\* C9: an activation of handlePdfUpload whose document has zero pages ends
\* rejected, without any call to the parsing service; it does not end with
\* an empty ("no text") result.
C9_ZeroPagePdfRejected ==
    (pdfJob.pc = "settled" /\ pdfJob.opened /\ pdfJob.numPages = 0)
    => /\ pdfJob.outcome \notin {"no text", "appended"}
       /\ pdfJob.requests = <<>>

C11_NoNaturalSizeThrows ==
    [][(/\ imgJob' # imgJob
        /\ imgJob'.kind \in {"zone", "zones"}
        /\ imgJob'.image # NULL
        /\ (imgJob'.image.naturalWidth = 0 \/ imgJob'.image.naturalHeight = 0))
       => /\ imgJob'.pc = "settled"
          /\ imgJob'.outcome \in {"error", "threw"}
          /\ imgJob'.requests = <<>>
          /\ imgJob'.extracted = <<>>
          /\ imgJob'.result = <<>>
          /\ text' = text
          /\ ~isImageExtracting' /\ imageProgress' = NULL]_vars

\* C11 witness: a zone-sequence job on an image without natural size has
\* ended with an error on its first zone.
C11_Witness ==
    /\ imgJob.kind = "zones" /\ imgJob.pc = "settled"
    /\ imgJob.outcome = "error"
    /\ imgJob.image.naturalWidth = 0
    /\ Len(imgJob.zones) >= 1 /\ imgJob.i = 1
    /\ imgJob.requests = <<>>

C14_OneJobPerKind ==
    /\ [](/\ isImageExtracting <=> imgJob.pc = "recognizing"
          /\ isPdfExtracting <=>
                pdfJob.pc \in {"arrayBuffer", "getDocument", "getPage",
                               "getTextContent"})
    /\ [][isImageExtracting
          => /\ imgJob'.kind = imgJob.kind
             /\ imgJob'.image = imgJob.image
             /\ imgJob'.zones = imgJob.zones
             /\ imgJob'.i >= imgJob.i
             /\ Len(imgJob'.requests) >= Len(imgJob.requests)
             /\ SubSeq(imgJob'.requests, 1, Len(imgJob.requests))
                   = imgJob.requests]_vars
    /\ [][isPdfExtracting
          => /\ pdfJob'.pageNum >= pdfJob.pageNum
             /\ Len(pdfJob'.requests) >= Len(pdfJob.requests)
             /\ SubSeq(pdfJob'.requests, 1, Len(pdfJob.requests))
                   = pdfJob.requests]_vars

\* C14 witness: a zone-sequence job and a PDF job are in flight together,
\* the image job at its second zone and the PDF job past its first page.
C14_Witness ==
    /\ isImageExtracting /\ imgJob.pc = "recognizing" /\ imgJob.i = 2
    /\ isPdfExtracting /\ pdfJob.pageNum = 2
    /\ Len(pdfJob.requests) >= 4

(***************************************************************************)
(* SpecDialog: the image input, the delete button and the OCR dialog with   *)
(* every control of its zone mode, around zone-sequence jobs.  Two images   *)
(* can be selected, so a preview of a replaced image may still load.        *)
(***************************************************************************)
UploadForDialog == UploadImage(JobFiles)

\* Pointer positions offered to the selector of the dialog: a drag from one
\* to the other is 1 percent wide and high.  The presses are those of a pen
\* that touches with its barrel button held (button 2) and of the secondary
\* mouse button.
DialogPoints == {<<1, 1>>, <<9, 9>>}

DialogPointerDown ==
    /\ SelectorMounted(isOcrModalOpen, imagePreviewUrl, ocrMode)
    /\ \E kind \in {<<"pen", 2>>, <<"mouse", 2>>}, raw \in DialogPoints :
          handlePointerDown(kind[1], kind[2], raw)

DialogPointerMove ==
    /\ SelectorMounted(isOcrModalOpen, imagePreviewUrl, ocrMode)
    /\ \E raw \in DialogPoints : handlePointerMove(raw)

NextDialog ==
    \/ UploadForDialog
    \/ ImageLoads
    \/ ImageFails
    \/ DeleteImage
    \/ ChooseMode
    \/ DialogPointerDown
    \/ DialogPointerMove
    \/ PointerUp
    \/ PointerLeave
    \/ RemoveZoneClick
    \/ ClearZonesClick
    \/ ExtractZonesClick
    \/ ZoneProgress
    \/ ZoneDone
    \/ ZoneSequenceRejects

SpecDialog == Init /\ [][NextDialog]_vars


\* C15: from the start of a zone-sequence job until it has settled the zone
\* registry is not changed: while the job is in flight the registry is the
\* one the job iterates, no step adds, removes or clears a zone or selects
\* another image, and no step of the job itself (its start, a progress
\* message, a resolved or rejected recognition, its settlement with any
\* outcome) changes the registry.
C15_RegistryFrozenDuringJob ==
    /\ [](imgJob.pc = "recognizing" => imgJob.zones = ocrZones)
    /\ [][(imgJob.pc = "recognizing" \/ imgJob' # imgJob)
          => /\ ocrZones' = ocrZones
             /\ zoneIdCount' = zoneIdCount
             /\ urlCount' = urlCount]_vars

\* C15 witness: a zone-sequence job is at its second zone while the selector
\* holds a drag of 1 percent that was begun before the job started.
C15_Witness ==
    /\ imgJob.kind = "zones" /\ imgJob.pc = "recognizing" /\ imgJob.i = 2
    /\ Len(ocrZones) = 2
    /\ originRef # NULL /\ draftRect # NULL
    /\ draftRect.width >= PercentUnits /\ draftRect.height >= PercentUnits

\* C16: handleImageUpload with an accepted file and clearImageSelection each
\* leave the zone registry empty, so no zone drawn on a previous image is
\* used for extraction on a later image: whenever the displayed image
\* becomes another image the registry is empty, a zone is added only on the
\* image displayed, which stays, and a zone-sequence job takes the registry
\* as it is and an image that is not later than the displayed one.
C16_NewImageEmptiesRegistry ==
    /\ [][urlCount' = urlCount + 1 => ocrZones' = <<>>]_vars
    /\ [][(imagePreviewUrl # NULL /\ imagePreviewUrl' = NULL
             /\ previews' = previews)
          => ocrZones' = <<>>]_vars
    /\ [][(imagePreviewUrl' # imagePreviewUrl /\ imagePreviewUrl' # NULL)
          => ocrZones' = <<>>]_vars
    /\ [][Len(ocrZones') > Len(ocrZones)
          => imagePreviewUrl # NULL /\ imagePreviewUrl' = imagePreviewUrl]_vars
    /\ [][(imgJob' # imgJob /\ imgJob.pc # "recognizing"
             /\ imgJob'.kind = "zones" /\ imgJob'.image # NULL)
          => /\ imgJob'.zones = ocrZones
             /\ imagePreviewUrl # NULL
             /\ imgJob'.image.src.blob <= imagePreviewUrl.blob]_vars

\* C16 witness: a zone was drawn and a second image selected; the job on the
\* second image runs on the one zone drawn after that, the second ever made.
C16_Witness ==
    /\ urlCount = 2 /\ zoneIdCount = 2
    /\ imgJob.kind = "zones" /\ imgJob.pc = "recognizing"
    /\ imgJob.image.src = [blob |-> 2]
    /\ Len(imgJob.zones) = 1 /\ imgJob.zones[1].id = 2

\* C30: for every interleaving of uploads, deletion and preview callbacks,
\* a non-null ocrImageElement is the decoded element of the currently
\* selected image file, and the onload or onerror of a superseded upload (one
\* whose url is no longer the preview url) changes neither selectedImageFile
\* nor ocrImageElement.
C30_ElementOfCurrentSelection ==
    /\ [](ocrImageElement # NULL
             => /\ selectedImageFile # NULL
                /\ ocrImageElement.src = imagePreviewUrl
                /\ ocrImageElement.src.blob = selectedImageFile.id)
    /\ [][(\E previewImage \in previews :
              /\ previews' = previews \ {previewImage}
              /\ previewImage.src # imagePreviewUrl)
          => /\ selectedImageFile' = selectedImageFile
             /\ ocrImageElement' = ocrImageElement]_vars

\* C31: in every reachable state a non-empty zone registry comes with a
\* selected and decoded image: selectedImageFile, imagePreviewUrl and
\* ocrImageElement are all non-null.
C31_ZonesNeedDecodedImage ==
    Len(ocrZones) > 0
    => /\ selectedImageFile # NULL
       /\ imagePreviewUrl # NULL
       /\ ocrImageElement # NULL


\* C33 as stated: a zone is added only by a pointer-up on the enabled
\* selector that ends a drag begun by a primary-button (button 0)
\* pointer-down on the enabled selector and not ended since; the step adds
\* one zone and resets origin and draft; every pointer-up and pointer-leave
\* leaves origin and draft null.
C33_CommitAfterPrimaryPress ==
    /\ [](originRef = NULL => draftRect = NULL)
    /\ [][/\ Len(ocrZones') > Len(ocrZones)
             => /\ ~disabled
                /\ originRef # NULL
                /\ originRef.button = 0
                /\ draftRect # NULL
                /\ ocrZones' = Append(ocrZones,
                                      ocrZones'[Len(ocrZones')])
                /\ originRef' = NULL
                /\ draftRect' = NULL
          /\ (originRef' # NULL /\ originRef' # originRef)
             => /\ ~disabled
                /\ originRef'.button = 0
                /\ draftRect' = [x |-> originRef'.x, y |-> originRef'.y,
                                 width |-> 0, height |-> 0]
          /\ (PointerUp \/ PointerLeave)
             => (originRef' = NULL /\ draftRect' = NULL)]_vars

\* C33, amended: a zone is added only by a pointer-up on the enabled
\* selector that ends a drag begun by a pointer-down on the enabled selector
\* that was not a mouse press with a non-primary button, and not ended
\* since; the step appends one zone, the committed draft rectangle, and
\* resets origin and draft; every pointer-up and pointer-leave leaves origin
\* and draft null.
C33_CommitAfterAcceptedPress ==
    /\ [](originRef = NULL => draftRect = NULL)
    /\ [][/\ Len(ocrZones') > Len(ocrZones)
             => /\ ~disabled
                /\ originRef # NULL
                /\ ~(originRef.pointerType = "mouse" /\ originRef.button # 0)
                /\ draftRect # NULL
                /\ ocrZones' = AddZone(ocrZones, CommitZone(draftRect),
                                       createZoneId(zoneIdCount))
                /\ originRef' = NULL
                /\ draftRect' = NULL
          /\ (originRef' # NULL /\ originRef' # originRef)
             => /\ ~disabled
                /\ ~(originRef'.pointerType = "mouse" /\ originRef'.button # 0)
                /\ draftRect' = [x |-> originRef'.x, y |-> originRef'.y,
                                 width |-> 0, height |-> 0]
          /\ (PointerUp \/ PointerLeave)
             => (originRef' = NULL /\ draftRect' = NULL)]_vars

\* C33 witness: a zone has been committed and the next drag, begun by a pen
\* press with a non-primary button, is under way on the enabled selector.
C33_Witness ==
    /\ Len(ocrZones) >= 1
    /\ ~disabled
    /\ originRef # NULL
    /\ originRef.pointerType = "pen"
    /\ originRef.button = 2
    /\ draftRect.width >= MIN_ZONE_SIZE * PercentUnits


MaxBufferLen == 8
MaxAppends == 4

AppendInputs ==
    {<<>>, <<" ">>, <<"h">>, <<" ", "w", "\n">>, <<"a", " ">>, <<"w", " ", "x">>}

\* The texts of the successful appends so far, in call order.
Appended == IF call = NULL THEN <<>> ELSE call.appended

AppendCall ==
    /\ Len(text) <= MaxBufferLen
    /\ Len(Appended) < MaxAppends
    /\ \E extracted \in AppendInputs :
          LET r == appendExtractedText(text, extracted)
          IN  /\ text' = r.text
              /\ toast' = IF r.toast = "" THEN toast ELSE r.toast
              /\ call' = [fn |-> "appendExtractedText", extracted |-> extracted,
                           appended |-> IF extracted = <<>> THEN Appended
                                        ELSE Append(Appended, extracted)]
    /\ UNCHANGED <<isAnalyzing, selVars, imgVars, zoneVars, imgJobVars, pdfJobVars>>

NextAppend == AppendCall

SpecAppend == Init /\ [][NextAppend]_vars

\* C6: appendExtractedText(s) on buffer b: if s is empty, b is unchanged and
\* the "no new text" toast is shown; else if trim(b) is empty the buffer
\* becomes s verbatim; else it becomes trim(b) + "\n\n" + s.
C6_AccumulatorAppend ==
    [][LET s == call'.extracted
       IN  IF s = <<>>
           THEN text' = text /\ toast' = "no new text"
           ELSE IF Trim(text) = <<>>
           THEN text' = s /\ toast' = toast
           ELSE /\ text' = Trim(text) \o <<"\n", "\n">> \o s
                /\ toast' = toast]_vars

\* C6 witness: "h" was appended to the buffer " w\n", which became "w\n\nh".
C6_Witness ==
    /\ call # NULL /\ call.extracted = <<"h">>
    /\ text = <<"w", "\n", "\n", "h">>

\* C27: from the empty buffer and without manual edits, successful appends of
\* non-empty trimmed texts t1..tn leave the buffer equal to t1, ..., tn joined
\* by "\n\n" in call order, a text already in the buffer being added again;
\* and every successful append keeps the trimmed previous buffer as a prefix
\* of the new buffer.
C27_AppendsJoined ==
    /\ []((/\ call # NULL
           /\ \A k \in 1..Len(call.appended) :
                 /\ call.appended[k] # <<>>
                 /\ call.appended[k][1] \notin {" ", "\n"}
                 /\ call.appended[k][Len(call.appended[k])] \notin {" ", "\n"})
          => text = Join(call.appended, <<"\n", "\n">>))
    /\ [][call'.extracted # <<>>
          => /\ Len(text') >= Len(Trim(text))
             /\ SubSeq(text', 1, Len(Trim(text))) = Trim(text)]_vars

\* C27 witness: "h", "w x" and "h" again were appended: the buffer is
\* "h\n\nw x\n\nh".
C27_Witness ==
    /\ call # NULL
    /\ call.appended = << <<"h">>, <<"w", " ", "x">>, <<"h">> >>
    /\ text = <<"h", "\n", "\n", "w", " ", "x", "\n", "\n", "h">>

(***************************************************************************)
(* SpecRaster: extractTextFromImageZone on its own, over a grid of zones   *)
(* (in range, on the edges and out of range) and of image sizes.           *)
(***************************************************************************)
RasterOrigins == {-100, 0, 5000, 9900, 10000}
RasterExtents == {0, 100, 6000, 10100}

RasterZones ==
    {[x |-> x, y |-> y, width |-> w, height |-> h] :
        x \in RasterOrigins, y \in RasterOrigins,
        w \in RasterExtents, h \in RasterExtents}

RasterImages ==
    {[src |-> [blob |-> 0], naturalWidth |-> n[1], naturalHeight |-> n[2]] :
        n \in {<<200, 100>>, <<10, 10>>, <<1, 1>>, <<0, 10>>, <<10, 0>>}}

CallZone ==
    \E image \in RasterImages, zone \in RasterZones, contextOk \in BOOLEAN :
        extractTextFromImageZone(image, zone, contextOk)

ZoneCallProgress == \E message \in RecognizeMessages : ZoneCallLogs(message)

ZoneCallDone == \E raw \in RawTexts : ZoneCallResolves(raw)

NextRaster ==
    \/ CallZone
    \/ ZoneCallProgress
    \/ ZoneCallDone
    \/ ZoneCallRejects

SpecRaster == Init /\ [][NextRaster]_vars

\* C2: for every zone and every image with natural width and height >= 1,
\* the crop extractTextFromImageZone draws lies inside the image:
\* startXPx + outputWidth <= naturalWidth, startYPx + outputHeight <=
\* naturalHeight.
C2_CropInsideImage ==
    (imgJob.pc # "idle" /\ imgJob.kind = "zone"
        /\ imgJob.image.naturalWidth >= 1 /\ imgJob.image.naturalHeight >= 1)
    => \A k \in 1..Len(imgJob.requests) :
          LET crop == imgJob.requests[k].crop
          IN  /\ crop.startXPx + crop.outputWidth <= imgJob.image.naturalWidth
              /\ crop.startYPx + crop.outputHeight <= imgJob.image.naturalHeight

\* C8: extractTextFromImageZone returns the empty string only when the
\* recognition service was called, succeeded and recognized no text; a
\* failure to produce the crop is never returned as "".
C8_EmptyOnlyWhenNothingRecognized ==
    (imgJob.pc = "settled" /\ imgJob.kind = "zone"
        /\ imgJob.outcome = "returned" /\ imgJob.result = <<>>)
    => /\ Len(imgJob.requests) = 1
       /\ imgJob.extracted[1].recognized

\* C25: for every zone handed to extractTextFromImageZone, also one with
\* negative values or values above 100, normalizeZone returns 0 <= x <= 100,
\* 0 <= y <= 100, 0 <= width <= 100 - x, 0 <= height <= 100 - y, and the
\* pixel origin and extent of the crop come from that re-clamped zone: the
\* origin is the rounded pixel position of the clamped x, y and the extent is
\* at most one pixel or the rounded pixel extent of the capped width, height.
C25_CropFromNormalizedZone ==
    (imgJob.pc # "idle" /\ imgJob.kind = "zone")
    => LET zone == imgJob.zones[1]
           normalized == normalizeZone(zone)
           x == Min(Max(zone.x, 0), 10000)
           y == Min(Max(zone.y, 0), 10000)
           width == Min(Min(Max(zone.width, 0), 10000), 10000 - x)
           height == Min(Min(Max(zone.height, 0), 10000), 10000 - y)
           W == imgJob.image.naturalWidth
           H == imgJob.image.naturalHeight
       IN  /\ 0 <= normalized.x /\ normalized.x <= 10000
           /\ 0 <= normalized.y /\ normalized.y <= 10000
           /\ 0 <= normalized.width /\ normalized.width <= 10000 - normalized.x
           /\ 0 <= normalized.height
           /\ normalized.height <= 10000 - normalized.y
           /\ \A k \in 1..Len(imgJob.requests) :
                 LET crop == imgJob.requests[k].crop
                 IN  /\ crop.startXPx = (2 * x * W + 10000) \div 20000
                     /\ crop.startYPx = (2 * y * H + 10000) \div 20000
                     /\ crop.outputWidth
                           <= Max(1, (2 * width * W + 10000) \div 20000)
                     /\ crop.outputHeight
                           <= Max(1, (2 * height * H + 10000) \div 20000)

\* C25 witness: the zone x = -1, y = 99, width = 101, height = 60 was cropped
\* from the 200 x 100 image as the strip that starts at (0, 99).
C25_Witness ==
    /\ imgJob.kind = "zone" /\ Len(imgJob.requests) = 1
    /\ imgJob.zones[1] = [x |-> -100, y |-> 9900, width |-> 10100,
                          height |-> 6000]
    /\ imgJob.image.naturalWidth = 200
    /\ imgJob.requests[1].crop = [startXPx |-> 0, startYPx |-> 99,
                                  outputWidth |-> 200, outputHeight |-> 1]

\* C26: on an image of natural width and height >= 1 every crop is at least
\* one pixel wide and high, also for zones of width or height 0, and per axis
\* its size is min(max(1, round(size% / 100 * natural)),
\* max(1, natural - round(origin% / 100 * natural))).
C26_CropAtLeastOnePixel ==
    (imgJob.pc # "idle" /\ imgJob.kind = "zone"
        /\ imgJob.image.naturalWidth >= 1 /\ imgJob.image.naturalHeight >= 1)
    => LET zone == imgJob.zones[1]
           x == Min(Max(zone.x, 0), 10000)
           y == Min(Max(zone.y, 0), 10000)
           width == Min(Min(Max(zone.width, 0), 10000), 10000 - x)
           height == Min(Min(Max(zone.height, 0), 10000), 10000 - y)
           W == imgJob.image.naturalWidth
           H == imgJob.image.naturalHeight
           Px(percent, natural) == (2 * percent * natural + 10000) \div 20000
       IN  \A k \in 1..Len(imgJob.requests) :
              LET crop == imgJob.requests[k].crop
              IN  /\ crop.outputWidth >= 1
                  /\ crop.outputHeight >= 1
                  /\ crop.outputWidth
                        = Min(Max(1, Px(width, W)), Max(1, W - Px(x, W)))
                  /\ crop.outputHeight
                        = Min(Max(1, Px(height, H)), Max(1, H - Px(y, H)))

\* C26 witness: a zone of width 0 and height 0 at x = y = 50 was cropped from
\* the 10 x 10 image as one pixel.
C26_Witness ==
    /\ imgJob.kind = "zone" /\ Len(imgJob.requests) = 1
    /\ imgJob.zones[1] = [x |-> 5000, y |-> 5000, width |-> 0, height |-> 0]
    /\ imgJob.image.naturalWidth = 10
    /\ imgJob.requests[1].crop.outputWidth = 1
    /\ imgJob.requests[1].crop.outputHeight = 1


\* C36: normalizeZone is idempotent, normalizeZone(normalizeZone(z)) =
\* normalizeZone(z) for every zone z handed to extractTextFromImageZone, so
\* that the crop of the normalized zone is the crop of z; a zone with
\* 0 <= x, y <= 100, 0 <= width <= 100 - x and 0 <= height <= 100 - y is
\* returned unchanged.
C36_NormalizeIdempotent ==
    (imgJob.pc # "idle" /\ imgJob.kind = "zone")
    => LET zone == imgJob.zones[1]
           normalized == normalizeZone(zone)
           InRange == /\ 0 <= zone.x /\ zone.x <= 10000
                      /\ 0 <= zone.y /\ zone.y <= 10000
                      /\ 0 <= zone.width /\ zone.width <= 10000 - zone.x
                      /\ 0 <= zone.height /\ zone.height <= 10000 - zone.y
       IN  /\ normalizeZone(normalized) = normalized
           /\ InRange => normalized = zone
           /\ \A k \in 1..Len(imgJob.requests) :
                 imgJob.requests[k].crop
                    = CropRect(normalized, imgJob.image.naturalWidth,
                               imgJob.image.naturalHeight)

\* C36 witness: the zone x = 99, y = -1, width = 60, height = 101 was
\* cropped from the 200 x 100 image; normalizing it gives x = 99, y = 0,
\* width = 1, height = 100, and normalizing that changes nothing.
C36_Witness ==
    /\ imgJob.kind = "zone" /\ Len(imgJob.requests) = 1
    /\ imgJob.zones[1] = [x |-> 9900, y |-> -100, width |-> 6000,
                          height |-> 10100]
    /\ imgJob.image.naturalWidth = 200
    /\ normalizeZone(imgJob.zones[1])
          = [x |-> 9900, y |-> 0, width |-> 100, height |-> 10000]
    /\ normalizeZone(normalizeZone(imgJob.zones[1]))
          = [x |-> 9900, y |-> 0, width |-> 100, height |-> 10000]
    /\ imgJob.requests[1].crop = [startXPx |-> 198, startYPx |-> 0,
                                  outputWidth |-> 2, outputHeight |-> 100]

(***************************************************************************)
(* The zone registry under direct calls of its three handlers              *)
(* (mental-health-api.ts lines 235-243).  Zones are in hundredths of a      *)
(* percent, as the selector hands them over; ids are the createZoneId       *)
(* calls in order.                                                          *)
(***************************************************************************)
\* Arguments of handleAddZone: an ordinary zone, one overlapping it, one of
\* exactly 1 percent by 1 percent, one narrower than 1 percent and one lower
\* than 1 percent.
RegistryZones ==
    { [x |-> 1000, y |-> 1000, width |-> 5000, height |-> 5000],
      [x |-> 2000, y |-> 2000, width |-> 5000, height |-> 5000],
      [x |-> 0, y |-> 0, width |-> 100, height |-> 100],
      [x |-> 0, y |-> 0, width |-> 50, height |-> 5000],
      [x |-> 0, y |-> 0, width |-> 5000, height |-> 50] }

\* Arguments of handleRemoveZone: every id handed out so far or later.
RegistryIds == 1..(MaxZoneIds + 1)

AddZoneCall ==
    /\ \E zone \in RegistryZones :
          /\ handleAddZone(zone)
          /\ call' = [fn |-> "handleAddZone", zone |-> zone]
    /\ UNCHANGED <<text, isAnalyzing, selVars, imgVars, imgJobVars, pdfJobVars,
                   toast>>

RemoveZoneCall ==
    /\ \E id \in RegistryIds :
          /\ ocrZones' = RemoveZone(ocrZones, id)
          /\ call' = [fn |-> "handleRemoveZone", id |-> id]
    /\ UNCHANGED <<text, isAnalyzing, selVars, imgVars, zoneIdCount, imgJobVars,
                   pdfJobVars, toast>>

ClearZonesCall ==
    /\ ocrZones' = <<>>
    /\ call' = [fn |-> "handleClearZones"]
    /\ UNCHANGED <<text, isAnalyzing, selVars, imgVars, zoneIdCount, imgJobVars,
                   pdfJobVars, toast>>

NextRegistry == AddZoneCall \/ RemoveZoneCall \/ ClearZonesCall

SpecRegistry == Init /\ [][NextRegistry]_vars

\* C12: for every zone whose width is below 1 percent or whose height is
\* below 1 percent, handleAddZone leaves the registry unchanged and assigns
\* no id.
C12_SmallZoneNotAdded ==
    [][(/\ call'.fn = "handleAddZone"
        /\ (call'.zone.width < 100 \/ call'.zone.height < 100))
       => /\ ocrZones' = ocrZones
          /\ zoneIdCount' = zoneIdCount]_vars

C18_RemoveAbsentIsNoOp ==
    [][call'.fn = "handleRemoveZone"
       => /\ (\A k \in 1..Len(ocrZones) : ocrZones[k].id # call'.id)
                => ocrZones' = ocrZones
          /\ \A k \in 1..Len(ocrZones') : ocrZones'[k].id # call'.id
          /\ ("fn" \in DOMAIN call /\ call.fn = "handleRemoveZone"
                /\ call.id = call'.id)
                => ocrZones' = ocrZones
          /\ toast' = toast /\ zoneIdCount' = zoneIdCount]_vars

\* C18 witness: an id never handed out was removed from a registry of two
\* entries, which are still there.
C18_Witness ==
    /\ "fn" \in DOMAIN call /\ call.fn = "handleRemoveZone"
    /\ call.id > zoneIdCount
    /\ Len(ocrZones) = 2

(***************************************************************************)
(* SpecPdf: handlePdfUpload and extractTextFromPdf on documents of 0 to 3   *)
(* pages with pages of every kind, and on documents of 40 and 101 pages     *)
(* whose pages all hold one fragment.                                       *)
(***************************************************************************)
DocPageCounts == {0, 1, 2, 3, 40, 101}

\* The items of a page: none; one blank fragment; fragments with an empty
\* one among them and a line end at the end; a blank fragment before a word.
ShortDocContents ==
    {<<>>,
     <<[str |-> <<" ">>]>>,
     <<[str |-> <<"a">>], [str |-> <<>>], [str |-> <<"b", "\n">>]>>,
     <<[str |-> <<" ">>], [str |-> <<"q">>]>>}

DocPageContents(numPages) ==
    IF numPages <= 3 THEN ShortDocContents ELSE {<<[str |-> <<"q">>]>>}

DocOpened == \E numPages \in DocPageCounts : GetDocumentResolves(numPages)

DocPageRead ==
    \E items \in DocPageContents(pdfJob.numPages) : GetTextContentResolves(items)

NextPdf ==
    \/ PdfUpload
    \/ ArrayBufferResolves
    \/ DocOpened
    \/ GetPageResolves
    \/ DocPageRead
    \/ PdfAwaitRejects

SpecPdf == Init /\ [][NextPdf]_vars

\* C19 as stated: for a document of N >= 1 pages progress is reported once
\* per page read, the k-th report is round(100 * k / N), the reported values
\* are strictly increasing, and a job that returns has reported N times, the
\* last time 100.
C19_ProgressRoundedIncreasing ==
    (pdfJob.opened /\ pdfJob.numPages >= 1)
    => LET N == pdfJob.numPages
           reports == pdfJob.reports
       IN  /\ Len(reports) = Len(pdfJob.pageTexts)
           /\ \A k \in 1..Len(reports) :
                 reports[k].progress = (200 * k + N) \div (2 * N)
           /\ \A k \in 1..(Len(reports) - 1) :
                 reports[k].progress < reports[k + 1].progress
           /\ (pdfJob.pc = "settled" /\ pdfJob.outcome \in {"appended", "no text"})
                 => Len(reports) = N /\ reports[N].progress = 100

\* C19 amended: the k-th report is round(100 * k / N), or the integer below
\* when 100 * k / N lies halfway between two integers; the reported values
\* never decrease and are strictly increasing when N <= 100; a job that
\* returns has reported N times, the last time 100.
C19_ProgressPerPage ==
    (pdfJob.opened /\ pdfJob.numPages >= 1)
    => LET N == pdfJob.numPages
           reports == pdfJob.reports
           rounded(k) == (200 * k + N) \div (2 * N)
           halfway(k) == (200 * k) % (2 * N) = N
       IN  /\ Len(reports) = Len(pdfJob.pageTexts)
           /\ \A k \in 1..Len(reports) :
                 \/ reports[k].progress = rounded(k)
                 \/ halfway(k) /\ reports[k].progress = rounded(k) - 1
           /\ \A k \in 1..(Len(reports) - 1) :
                 /\ reports[k].progress <= reports[k + 1].progress
                 /\ N <= 100 => reports[k].progress < reports[k + 1].progress
           /\ (pdfJob.pc = "settled" /\ pdfJob.outcome \in {"appended", "no text"})
                 => Len(reports) = N /\ reports[N].progress = 100

\* C19 witness: a document of 3 pages was read to its end; the reports were
\* 33, 67 and 100.
C19_Witness ==
    /\ pdfJob.pc = "settled" /\ pdfJob.outcome = "appended"
    /\ pdfJob.numPages = 3 /\ Len(pdfJob.reports) = 3
    /\ pdfJob.reports[1].progress = 33
    /\ pdfJob.reports[2].progress = 67
    /\ pdfJob.reports[3].progress = 100

\* C20: the text extractTextFromPdf returns is the page texts of pages 1..N,
\* in page order, joined with "\n\n" and trimmed; a page text is the page's
\* fragments, in the order the parsing service gave them, joined with one
\* space and trimmed; a page without text has the empty page text.
C20_PdfResult ==
    LET fragment(item) == IF "str" \in DOMAIN item THEN item.str ELSE <<>>
        pageText(items) ==
            Trim(Join([k \in 1..Len(items) |-> fragment(items[k])], <<" ">>))
        texts == [k \in 1..Len(pdfJob.contents) |-> pageText(pdfJob.contents[k])]
    IN  /\ pdfJob.pageTexts = texts
        /\ (pdfJob.pc = "settled" /\ pdfJob.outcome \in {"appended", "no text"})
              => /\ Len(texts) = pdfJob.numPages
                 /\ pdfJob.result = Trim(Join(texts, <<"\n", "\n">>))
                 /\ pdfJob.outcome = "no text" <=> pdfJob.result = <<>>

\* C20 witness: pages "a", "", "b\n" / no items / " ", "q" gave the text
\* "a  b", four line ends, "q".
C20_Witness ==
    /\ pdfJob.pc = "settled" /\ pdfJob.outcome = "appended"
    /\ pdfJob.numPages = 3
    /\ pdfJob.pageTexts = << <<"a", " ", " ", "b">>, <<>>, <<"q">> >>
    /\ pdfJob.result = <<"a", " ", " ", "b", "\n", "\n", "\n", "\n", "q">>

(***************************************************************************)
(* SpecProgress: the progress callbacks of a whole-image job and of a       *)
(* document job.  The recognition service fires its logger any number of    *)
(* times, in any order, with fractions between 0 and 1 (in thousandths):    *)
(* Tesseract counts every phase ("loading", "recognizing text") from 0 to 1.*)
(***************************************************************************)
ProgressMessages ==
    {[status |-> "loading", isNumber |-> TRUE, progress |-> 1000],
     [status |-> "recognizing text", isNumber |-> TRUE, progress |-> 0],
     [status |-> "recognizing text", isNumber |-> TRUE, progress |-> 4],
     [status |-> "recognizing text", isNumber |-> TRUE, progress |-> 5],
     [status |-> "recognizing text", isNumber |-> TRUE, progress |-> 495],
     [status |-> "recognizing text", isNumber |-> TRUE, progress |-> 1000],
     [status |-> "", isNumber |-> TRUE, progress |-> 500],
     [status |-> "loading", isNumber |-> FALSE, progress |-> 0]}

ProgressLogs == \E message \in ProgressMessages : WholeImageLogs(message)

NextProgress ==
    \/ UploadForImageJobs
    \/ ImageLoads
    \/ ExtractWholeClick
    \/ ProgressLogs
    \/ WholeImageDone
    \/ WholeImageRejects
    \/ PdfUpload
    \/ ArrayBufferResolves
    \/ PdfOpened
    \/ GetPageResolves
    \/ PdfPageRead
    \/ PdfAwaitRejects

SpecProgress == Init /\ [][NextProgress]_vars

\* C21: within one extraction job the progress values delivered to the
\* caller never decrease, whatever callbacks the service fires.
C21_ProgressMonotonic ==
    [][(/\ imgJob.pc = "recognizing" /\ imgJob'.pc = "recognizing"
        /\ imgJob.delivered # NULL /\ imgJob'.delivered # NULL)
       => imgJob'.delivered.progress >= imgJob.delivered.progress]_vars

\* C22: every progress record delivered by the document reader or by the
\* recognition logger carries an integer percentage within 0..100, and a
\* service fraction f (thousandths here) is delivered as round(100 * f).
C22_ProgressPercentage ==
    /\ [](/\ imgJob.delivered # NULL => imgJob.delivered.progress \in 0..100
          /\ \A k \in 1..Len(pdfJob.reports) :
                pdfJob.reports[k].progress \in 0..100)
    /\ [][(imgJob'.delivered # NULL /\ imgJob'.delivered # imgJob.delivered)
          => \E message \in ProgressMessages \cup RecognizeMessages :
                /\ message.status # ""
                /\ message.isNumber
                /\ message.progress \in 0..1000
                /\ imgJob'.delivered.status = <<message.status>>
                /\ imgJob'.delivered.progress
                      = (2 * message.progress + 10) \div 20]_vars

C22_Witness ==
    /\ imgJob.delivered # NULL
    /\ imgJob.delivered.status = <<"recognizing text">>
    /\ imgJob.delivered.progress = 50
    /\ Len(pdfJob.reports) = 1
    /\ pdfJob.reports[1].progress = 50

(***************************************************************************)
(* SpecPredict: MentalHealthAPI.predict called on its own.  A text is a     *)
(* sequence of characters; call holds the activation: the argument, the     *)
(* requests handed to fetch and the state of the returned promise.          *)
(***************************************************************************)
MIN_PREDICT_LENGTH == 10

\* Mutant of predict: the length of the untrimmed text is tested.
predict_untrimmedLength(t) ==
    IF t = <<>> \/ Len(t) < MIN_PREDICT_LENGTH
    THEN [fn |-> "predict", text |-> t, pc |-> "rejected", requests |-> <<>>]
    ELSE [fn |-> "predict", text |-> t, pc |-> "fetch",
          requests |-> <<[path |-> "/predict", method |-> "POST",
                          body |-> [text |-> Trim(t)]]>>]

\* predict up to its await (lines 60-72): the guard of line 61 throws, which
\* rejects the promise of the async function; otherwise one POST is sent.
predict(t) ==
    IF t = <<>> \/ Len(Trim(t)) < MIN_PREDICT_LENGTH
    THEN [fn |-> "predict", text |-> t, pc |-> "rejected", requests |-> <<>>]
    ELSE [fn |-> "predict", text |-> t, pc |-> "fetch",
          requests |-> <<[path |-> "/predict", method |-> "POST",
                          body |-> [text |-> Trim(t)]]>>]

\* Texts of 0, 1, 9, 10 and 11 characters after trimming, with and without a
\* blank inside, between up to two blanks or line ends on either side.
PredictTexts ==
    LET Run(c, n) == [k \in 1..n |-> c]
        Bodies == {Run("a", n) : n \in {0, 1, 9, 10, 11}}
                     \cup {Run("a", n) \o <<" ", "b">> : n \in {7, 8, 9}}
        Pads == {<<>>, <<" ">>, <<"\n", " ">>}
    IN  {l \o b \o r : l \in Pads, b \in Bodies, r \in Pads}

PredictCall ==
    /\ \E t \in PredictTexts : call' = predict(t)
    /\ UNCHANGED <<text, isAnalyzing, selVars, imgVars, zoneVars, imgJobVars,
                   pdfJobVars, toast>>

\* The fetch settles (lines 74-79): response.ok resolves the promise with the
\* body, any other response rejects it; no further request is sent.
FetchSettles ==
    /\ "fn" \in DOMAIN call /\ call.fn = "predict" /\ call.pc = "fetch"
    /\ \E ok \in BOOLEAN :
          call' = [call EXCEPT !.pc = IF ok THEN "resolved" ELSE "rejected"]
    /\ UNCHANGED <<text, isAnalyzing, selVars, imgVars, zoneVars, imgJobVars,
                   pdfJobVars, toast>>

NextPredict ==
    \/ PredictCall
    \/ FetchSettles

SpecPredict == Init /\ [][NextPredict]_vars

\* C24: predict rejects and sends no request when the text is empty or its
\* trimmed length is below 10; otherwise it sends one request whose body is
\* exactly the trimmed text.
C24_PredictGuard ==
    ("fn" \in DOMAIN call /\ call.fn = "predict")
    => LET trimmed == Trim(call.text)
       IN  IF call.text = <<>> \/ Len(trimmed) < 10
           THEN call.pc = "rejected" /\ call.requests = <<>>
           ELSE /\ Len(call.requests) = 1
                /\ call.requests[1].body = [text |-> trimmed]
                /\ call.requests[1].path = "/predict"

\* C24 witness: a text of 10 characters between blanks was sent trimmed, its
\* promise resolved.
C24_Witness ==
    /\ "fn" \in DOMAIN call /\ call.fn = "predict"
    /\ Len(call.text) = 13 /\ Len(Trim(call.text)) = 10
    /\ call.pc = "resolved"
    /\ call.requests[1].body.text = Trim(call.text)

\* C32: when a document job and a whole-image job are in flight together and
\* both return text, the one that settles first appends its text while the
\* other stays in flight, and the one that settles second appends its text
\* behind the first one's, separated by a blank line: the buffer holds both
\* texts in the order the jobs settled and neither replaces the other.
C32_ConcurrentAppends ==
    [][LET PdfAppends == /\ pdfJob.pc # "settled" /\ pdfJob'.pc = "settled"
                         /\ pdfJob'.outcome = "appended"
           ImgAppends == /\ imgJob.pc # "settled" /\ imgJob'.pc = "settled"
                         /\ imgJob'.outcome = "appended"
           Merged(prev, s) == IF Trim(prev) = <<>> THEN s
                              ELSE Trim(prev) \o <<"\n", "\n">> \o s
       IN  /\ (PdfAppends /\ isImageExtracting)
              => /\ text' = Merged(text, pdfJob'.result)
                 /\ imgJob' = imgJob /\ isImageExtracting'
           /\ (ImgAppends /\ isPdfExtracting)
              => /\ text' = Merged(text, imgJob'.result)
                 /\ pdfJob' = pdfJob /\ isPdfExtracting'
           /\ (/\ ImgAppends
               /\ pdfJob.pc = "settled" /\ pdfJob.outcome = "appended"
               /\ text = pdfJob.result)
              => text' = pdfJob.result \o <<"\n", "\n">> \o imgJob'.result
           /\ (/\ PdfAppends
               /\ imgJob.pc = "settled" /\ imgJob.outcome = "appended"
               /\ text = imgJob.result)
              => text' = imgJob.result \o <<"\n", "\n">> \o pdfJob'.result]_vars

\* C32 witness: a whole-image job that recognized "t" settled while the
\* document job was in flight, and the document job then appended "q".
C32_Witness ==
    /\ imgJob.kind = "whole" /\ imgJob.pc = "settled"
    /\ imgJob.outcome = "appended" /\ imgJob.result = <<"t">>
    /\ pdfJob.pc = "settled" /\ pdfJob.outcome = "appended"
    /\ pdfJob.result = <<"q">>
    /\ text = <<"t", "\n", "\n", "q">>


(***************************************************************************)
(* SpecAnalyze: handleAnalyze next to a document job.  The textarea and     *)
(* the analyze button are those of the page; call holds the activation of   *)
(* handleAnalyze: the text of the render it was created in, the await it    *)
(* is suspended at and the requests handed to the classifier.               *)
(***************************************************************************)
\* handleAnalyze (lines 442-483) up to await mentalHealthAPI.ping(): the two
\* checks return before setIsAnalyzing(true).
handleAnalyze ==
    /\ IF Trim(text) = <<>>
       THEN /\ toast' = "enter a text"
            /\ UNCHANGED <<isAnalyzing, call>>
       ELSE IF Len(Trim(text)) < MIN_PREDICT_LENGTH
       THEN /\ toast' = "text too short"
            /\ UNCHANGED <<isAnalyzing, call>>
       ELSE /\ isAnalyzing' = TRUE
            /\ call' = [fn |-> "handleAnalyze", text |-> text, pc |-> "ping",
                        requests |-> <<>>]
            /\ UNCHANGED toast
    /\ UNCHANGED <<text, selVars, imgVars, zoneVars, imgJobVars, pdfJobVars>>

\* <Button onClick={handleAnalyze} disabled={isAnalyzing || !text.trim()}>
\* (lines 637-642)
AnalyzeClick ==
    /\ ~(isAnalyzing \/ Trim(text) = <<>>)
    /\ handleAnalyze

\* ping() resolves (lines 457-466): false ends the handler through finally;
\* true calls predict(text) with the text of the handler's render, which
\* sends its request or throws into the catch block.
PingSettles ==
    /\ "fn" \in DOMAIN call /\ call.fn = "handleAnalyze" /\ call.pc = "ping"
    /\ \E isConnected \in BOOLEAN :
          LET p == predict(call.text)
          IN  IF ~isConnected
              THEN /\ call' = [call EXCEPT !.pc = "settled"]
                   /\ toast' = "cannot connect"
                   /\ isAnalyzing' = FALSE
              ELSE IF p.pc = "rejected"
              THEN /\ call' = [call EXCEPT !.pc = "settled"]
                   /\ toast' = "analysis failed"
                   /\ isAnalyzing' = FALSE
              ELSE /\ call' = [call EXCEPT !.pc = "predict",
                                           !.requests = p.requests]
                   /\ UNCHANGED <<toast, isAnalyzing>>
    /\ UNCHANGED <<text, selVars, imgVars, zoneVars, imgJobVars, pdfJobVars>>

\* predict(text) settles (lines 466-482): setResult and the success toast, or
\* the catch block; finally setIsAnalyzing(false).
PredictSettles ==
    /\ "fn" \in DOMAIN call /\ call.fn = "handleAnalyze" /\ call.pc = "predict"
    /\ \E ok \in BOOLEAN :
          /\ call' = [call EXCEPT !.pc = "settled"]
          /\ toast' = IF ok THEN "analysis done" ELSE "analysis failed"
    /\ isAnalyzing' = FALSE
    /\ UNCHANGED <<text, selVars, imgVars, zoneVars, imgJobVars, pdfJobVars>>

\* Values typed into the textarea before an analysis: nothing, a text one
\* character short of the minimum, and a text of the minimum length followed
\* by a blank.
TypeText ==
    /\ ~isAnalyzing
    /\ \E value \in {<<>>, [k \in 1..(MIN_PREDICT_LENGTH - 1) |-> "a"],
                     [k \in 1..MIN_PREDICT_LENGTH |-> "a"] \o <<" ">>} :
          setText(value)

NextAnalyze ==
    \/ TypeText
    \/ AnalyzeClick
    \/ PingSettles
    \/ PredictSettles
    \/ PdfUpload
    \/ ArrayBufferResolves
    \/ PdfOpened
    \/ GetPageResolves
    \/ PdfPageRead
    \/ PdfAwaitRejects

SpecAnalyze == Init /\ [][NextAnalyze]_vars

\* C34: while an analysis is in flight the text buffer does not change, and
\* when the analysis settles the buffer is the text that was handed to the
\* classifier.
C34_BufferFrozenDuringAnalysis ==
    [][/\ (isAnalyzing /\ isAnalyzing') => text' = text
       /\ (isAnalyzing /\ ~isAnalyzing')
          => (text' = call'.text /\ text' = text)]_vars

(***************************************************************************)
(* SpecLive: a document job next to the image jobs (whole image and zone    *)
(* sequence) on one image, under the assumption that every call to the      *)
(* parsing and recognition services settles: an awaited call does not stay  *)
(* pending for ever, however many progress callbacks fire meanwhile.        *)
(***************************************************************************)
NextLive ==
    \/ UploadForJobs
    \/ ImageLoads
    \/ ChooseMode
    \/ CommitDrag
    \/ ExtractWholeClick
    \/ WholeImageProgress
    \/ WholeImageDone
    \/ WholeImageRejects
    \/ ExtractZonesClick
    \/ ZoneProgress
    \/ ZoneDone
    \/ ZoneSequenceRejects
    \/ PdfUpload
    \/ ArrayBufferResolves
    \/ PdfOpened
    \/ GetPageResolves
    \/ PdfPageRead
    \/ PdfAwaitRejects

SpecLive ==
    /\ Init
    /\ [][NextLive]_vars
    /\ WF_vars(WholeImageRejects \/ WholeImageDone)
    /\ WF_vars(ZoneSequenceRejects \/ ZoneDone)
    /\ WF_vars(PdfAwaitRejects \/ ArrayBufferResolves \/ PdfOpened
                  \/ GetPageResolves \/ PdfPageRead)

\* C29: if every service call settles, every started extraction job settles,
\* and a job that is not running (settled with text, without text or with an
\* error) has its in-flight flag false and its progress state cleared.
C29_JobsSettle ==
    /\ (pdfJob.pc \notin {"idle", "settled"})
          ~> (pdfJob.pc = "settled" /\ ~isPdfExtracting /\ pdfProgress = NULL)
    /\ (imgJob.pc \notin {"idle", "settled"})
          ~> (/\ imgJob.pc = "settled"
              /\ ~isImageExtracting /\ imageProgress = NULL)
    /\ [](pdfJob.pc \in {"idle", "settled"}
             => ~isPdfExtracting /\ pdfProgress = NULL)
    /\ [](imgJob.pc \in {"idle", "settled"}
             => ~isImageExtracting /\ imageProgress = NULL)

\* C29 witness: a document job that failed and a zone-sequence job that found
\* no text have both settled; both flags are false, both progress states
\* cleared.
C29_Witness ==
    /\ pdfJob.pc = "settled" /\ pdfJob.outcome = "error"
    /\ imgJob.pc = "settled" /\ imgJob.kind = "zones"
    /\ imgJob.outcome = "no text"
    /\ ~isPdfExtracting /\ pdfProgress = NULL
    /\ ~isImageExtracting /\ imageProgress = NULL

====
